---- MODULE Spec2Model ----
(***************************************************************************)
(* Resilience layer of backend/services/registry.py (RegistryClient):      *)
(* the circuit breaker, the retry loop of _make_request and the Bearer     *)
(* challenge handled inside that loop.                                     *)
(*                                                                         *)
(* One step of the model is one synchronous section of the asyncio code:   *)
(* the code between two awaits (a transport call, the token request, the   *)
(* backoff sleep).  Within one section the clock is read as one value.     *)
(* The local last_exception of _make_request is assigned by an except      *)
(* clause of the iteration that reads it, so it is a value of the step     *)
(* (the e of ExceptClause) and not part of the state kept across awaits.   *)
(***************************************************************************)
EXTENDS Integers, Sequences, FiniteSets, TLC

(* ------------------------------ bounds -------------------------------- *)
\* the clock runs over 0..MaxTime
MaxTime == 2
\* values given to configure_circuit_breaker / configure_retry_policy
circuit_breaker_threshold == 2
circuit_breaker_timeout == 1
circuit_breaker_half_open_max_calls == 2
max_retries == 1

\* the callers using the one client concurrently
Requests == {"caller1", "caller2"}

\* values given to configure_cache as max_size: one below ten entries, where
\* int(max_size * 0.1) is 0, and one from ten on, where it is at least 1
SmallCacheSize == 3
TokenEpoch == 100000
MaxAttemptIndex == 6
MaxPages == 3
LargeCacheSize == 10

(* --------------------------- error taxonomy --------------------------- *)
\* status_code None is written 0
NoStatus == 0
NoException == [kind |-> "None", status |-> NoStatus]

\* RegistryException and its subclasses; the constructors' setdefault of
\* status_code is applied when no status_code is passed
RegistryException(status) == [kind |-> "RegistryException", status |-> status]
RegistryAuthError(status) == [kind |-> "RegistryAuthError", status |-> status]
RegistryNotFoundError(status) == [kind |-> "RegistryNotFoundError", status |-> status]
RegistryConnectionError(status) == [kind |-> "RegistryConnectionError", status |-> status]
RegistryTimeoutError(status) == [kind |-> "RegistryTimeoutError", status |-> status]
RegistryPermissionError(status) == [kind |-> "RegistryPermissionError", status |-> status]
RegistryRateLimitError(status) == [kind |-> "RegistryRateLimitError", status |-> status]
RegistryServerError(status) == [kind |-> "RegistryServerError", status |-> status]
RegistryValidationError(status) == [kind |-> "RegistryValidationError", status |-> status]
RegistryUnavailableError(status) == [kind |-> "RegistryUnavailableError", status |-> status]

retry_on_status_codes == {408, 429, 500, 502, 503, 504}

should_retry_status_code(status_code) == status_code \in retry_on_status_codes

\* variant: the status code of the error is not consulted
is_retriable_error_by_kind(e) ==
    \/ e.kind \in {"RegistryConnectionError", "RegistryTimeoutError"}
    \/ e.kind \in {"RegistryServerError", "RegistryUnavailableError"}
    \/ e.kind = "RegistryRateLimitError"

\* exceptions reaching _is_retriable_error are RegistryExceptions, never
\* httpx exceptions, so _should_retry_exception contributes FALSE
is_retriable_error(e) ==
    \/ e.kind \in {"RegistryConnectionError", "RegistryTimeoutError"}
    \/ e.kind \in {"RegistryServerError", "RegistryUnavailableError"}
    \/ e.kind = "RegistryRateLimitError"
    \/ (e.status # NoStatus /\ should_retry_status_code(e.status))

\* variant: 504 is left to the branch of the other 5xx codes
handle_error_response_no_504(status_code) ==
    IF status_code = 400 THEN RegistryValidationError(400)
    ELSE IF status_code = 401 THEN RegistryAuthError(401)
    ELSE IF status_code = 403 THEN RegistryPermissionError(403)
    ELSE IF status_code = 404 THEN RegistryNotFoundError(404)
    ELSE IF status_code \in {405, 409, 416} THEN RegistryException(status_code)
    ELSE IF status_code = 429 THEN RegistryRateLimitError(429)
    ELSE IF status_code \in {500, 502} THEN RegistryServerError(status_code)
    ELSE IF status_code = 503 THEN RegistryUnavailableError(503)
    ELSE IF status_code >= 500 THEN RegistryServerError(status_code)
    ELSE RegistryException(status_code)

\* the typed error raised for a response with status >= 400
handle_error_response(status_code) ==
    IF status_code = 400 THEN RegistryValidationError(400)
    ELSE IF status_code = 401 THEN RegistryAuthError(401)
    ELSE IF status_code = 403 THEN RegistryPermissionError(403)
    ELSE IF status_code = 404 THEN RegistryNotFoundError(404)
    ELSE IF status_code \in {405, 409, 416} THEN RegistryException(status_code)
    ELSE IF status_code = 429 THEN RegistryRateLimitError(429)
    ELSE IF status_code \in {500, 502} THEN RegistryServerError(status_code)
    ELSE IF status_code = 503 THEN RegistryUnavailableError(503)
    ELSE IF status_code = 504 THEN RegistryTimeoutError(504)
    ELSE IF status_code >= 500 THEN RegistryServerError(status_code)
    ELSE RegistryException(status_code)

(* ---------------------- error details, retry delay -------------------- *)
\* error_code None, and a Retry-After header that is absent
NoCode == "<None>"
NoRetryAfter == "<None>"

\* the message of an error as far as the model follows it
NoMessage == "-"

\* an exception with the attributes _handle_error_response may give it
Detailed(e, error_code, message, retry_after) ==
    [kind |-> e.kind, status |-> e.status, error_code |-> error_code,
     message |-> message, retry_after |-> retry_after]

\* an exception constructed with a message only
Plain(e) == Detailed(e, NoCode, NoMessage, NoRetryAfter)

\* bodies of an error response: no JSON, an empty list of errors, one error,
\* two errors, an error whose code is not a RegistryErrorCode
Envelopes == {"not_json", "empty", "one", "two", "unknown_code"}

\* the errors of an envelope that RegistryErrorResponse accepts
EnvelopeErrors(envelope) ==
    IF envelope = "one"
    THEN <<[code |-> "NAME_UNKNOWN",
            message |-> "repository name not known to registry"]>>
    ELSE IF envelope = "two"
    THEN <<[code |-> "MANIFEST_UNKNOWN", message |-> "manifest unknown"],
           [code |-> "DENIED", message |-> "access denied"]>>
    ELSE <<>>

\* "; ".join of "<code>: <message>" over the errors
RECURSIVE JoinErrors(_)
JoinErrors(errors) ==
    IF Len(errors) = 0 THEN ""
    ELSE IF Len(errors) = 1 THEN errors[1].code \o ": " \o errors[1].message
    ELSE errors[1].code \o ": " \o errors[1].message \o "; "
           \o JoinErrors(Tail(errors))

\* error_code after the parsing of the body
envelope_error_code(envelope) ==
    IF Len(EnvelopeErrors(envelope)) = 0 THEN NoCode
    ELSE EnvelopeErrors(envelope)[1].code

\* detailed_message after the parsing of the body, NoMessage for None
envelope_message(envelope) ==
    IF Len(EnvelopeErrors(envelope)) = 0 THEN NoMessage
    ELSE IF Len(EnvelopeErrors(envelope)) = 1
    THEN EnvelopeErrors(envelope)[1].message
    ELSE JoinErrors(EnvelopeErrors(envelope))

\* the default message of the branch taken when the body gave none
DefaultMessage(status_code) == "default message for the status"

\* the exception _handle_error_response raises for a response, with its
\* error_code, its message and the retry_after of its details
raise_for_response(response) ==
    LET kept == response.status \in {429, 503}
                  /\ response.retry_after \notin {NoRetryAfter, ""}
        base == IF envelope_message(response.envelope) # NoMessage
                THEN envelope_message(response.envelope)
                ELSE DefaultMessage(response.status)
    IN Detailed(handle_error_response(response.status),
                envelope_error_code(response.envelope),
                IF kept
                THEN base \o " (retry after " \o response.retry_after
                          \o " seconds)"
                ELSE base,
                IF kept THEN response.retry_after ELSE NoRetryAfter)

\* float() of a header text, in milliseconds; ParseFailure for ValueError
ParseFailure == -1
float_of(text) ==
    IF text = "0" THEN 0
    ELSE IF text = "10" THEN 10000
    ELSE IF text = "120" THEN 120000
    ELSE ParseFailure

Min(a, b) == IF a <= b THEN a ELSE b

\* variant: the delay is not capped
exponential_backoff_uncapped(base_delay, max_delay, att) ==
    base_delay * (2 ^ att)

\* min(base_delay * 2 ** attempt, _max_retry_delay)
exponential_backoff(base_delay, max_delay, att) ==
    Min(base_delay * (2 ^ att), max_delay)

\* delay * 0.25 * random.random(), the random number given in thousandths
jitter_of(delay, random) == (delay * random) \div 4000

\* variant: only a rate-limit error is asked for its retry_after
get_retry_delay_rate_limit_only(base_delay, max_delay, att, e, random) ==
    IF e.kind = "RegistryRateLimitError"
       /\ e.retry_after \notin {NoRetryAfter, ""}
       /\ float_of(e.retry_after) # ParseFailure
    THEN float_of(e.retry_after)
    ELSE exponential_backoff(base_delay, max_delay, att)
           + jitter_of(exponential_backoff(base_delay, max_delay, att), random)

\* _get_retry_delay, in milliseconds
get_retry_delay(base_delay, max_delay, att, e, random) ==
    IF e.kind \in {"RegistryRateLimitError", "RegistryUnavailableError"}
       /\ e.retry_after \notin {NoRetryAfter, ""}
       /\ float_of(e.retry_after) # ParseFailure
    THEN float_of(e.retry_after)
    ELSE exponential_backoff(base_delay, max_delay, att)
           + jitter_of(exponential_backoff(base_delay, max_delay, att), random)

(* --------------------------- circuit breaker -------------------------- *)
\* a breaker value: the four fields the breaker functions read and write
Breaker(s, fc, lft, hoc) ==
    [state |-> s, failure_count |-> fc, last_failure_time |-> lft,
     half_open_calls |-> hoc]

InitialBreaker == Breaker("CLOSED", 0, 0, 0)

\* variant: the query never ends the cool-down
get_circuit_breaker_state_no_half_open(b, t) ==
    IF b.state = "CLOSED"
    THEN IF b.failure_count >= circuit_breaker_threshold
         THEN [b EXCEPT !.state = "OPEN", !.last_failure_time = t]
         ELSE b
    ELSE b

\* variant: the circuit opens only above the threshold
get_circuit_breaker_state_above(b, t) ==
    IF b.state = "CLOSED"
    THEN IF b.failure_count > circuit_breaker_threshold
         THEN [b EXCEPT !.state = "OPEN", !.last_failure_time = t]
         ELSE b
    ELSE IF b.state = "OPEN"
    THEN IF t - b.last_failure_time > circuit_breaker_timeout
         THEN [b EXCEPT !.state = "HALF_OPEN", !.half_open_calls = 0]
         ELSE b
    ELSE b

\* variant: the cool-down ends one instant early
get_circuit_breaker_state_early(b, t) ==
    IF b.state = "CLOSED"
    THEN IF b.failure_count >= circuit_breaker_threshold
         THEN [b EXCEPT !.state = "OPEN", !.last_failure_time = t]
         ELSE b
    ELSE IF b.state = "OPEN"
    THEN IF t - b.last_failure_time >= circuit_breaker_timeout
         THEN [b EXCEPT !.state = "HALF_OPEN", !.half_open_calls = 0]
         ELSE b
    ELSE b

\* variant: a query while Open within the cool-down starts the cool-down anew
get_circuit_breaker_state_extends(b, t) ==
    IF b.state = "CLOSED"
    THEN IF b.failure_count >= circuit_breaker_threshold
         THEN [b EXCEPT !.state = "OPEN", !.last_failure_time = t]
         ELSE b
    ELSE IF b.state = "OPEN"
    THEN IF t - b.last_failure_time > circuit_breaker_timeout
         THEN [b EXCEPT !.state = "HALF_OPEN", !.half_open_calls = 0]
         ELSE [b EXCEPT !.last_failure_time = t]
    ELSE b

\* _get_circuit_breaker_state: the breaker after the query at time t; the
\* value returned is the state field of the result
get_circuit_breaker_state(b, t) ==
    IF b.state = "CLOSED"
    THEN IF b.failure_count >= circuit_breaker_threshold
         THEN [b EXCEPT !.state = "OPEN", !.last_failure_time = t]
         ELSE b
    ELSE IF b.state = "OPEN"
    THEN IF t - b.last_failure_time > circuit_breaker_timeout
         THEN [b EXCEPT !.state = "HALF_OPEN", !.half_open_calls = 0]
         ELSE b
    ELSE b

\* variant: an open circuit lets requests through
can_make_request_always(b) ==
    IF b.state = "HALF_OPEN"
    THEN b.half_open_calls < circuit_breaker_half_open_max_calls
    ELSE TRUE

\* _can_make_request, given the breaker after its state query
can_make_request(b) ==
    IF b.state = "CLOSED" THEN TRUE
    ELSE IF b.state = "OPEN" THEN FALSE
    ELSE IF b.state = "HALF_OPEN"
    THEN b.half_open_calls < circuit_breaker_half_open_max_calls
    ELSE FALSE

\* the first part of _record_failure: the update by state
record_failure_by_state(b, t) ==
    LET b1 == [b EXCEPT !.last_failure_time = t] IN
    IF b1.state = "CLOSED"
    THEN [b1 EXCEPT !.failure_count = b1.failure_count + 1]
    ELSE IF b1.state = "HALF_OPEN"
    THEN [b1 EXCEPT !.state = "OPEN",
                    !.failure_count = circuit_breaker_threshold,
                    !.half_open_calls = 0]
    ELSE b1

Max(a, b) == IF a >= b THEN a ELSE b

\* variant: the decrement is not restricted to the Closed state
record_failure_any_state(b, t, is_retriable) ==
    LET b2 == record_failure_by_state(b, t) IN
    IF ~is_retriable
    THEN [b2 EXCEPT !.failure_count = Max(0, b2.failure_count - 1)]
    ELSE b2

\* variant: the decrement for a non-retriable failure is missing
record_failure_no_decrement(b, t, is_retriable) ==
    record_failure_by_state(b, t)

\* _record_failure
record_failure(b, t, is_retriable) ==
    LET b2 == record_failure_by_state(b, t) IN
    IF ~is_retriable /\ b2.state = "CLOSED"
    THEN [b2 EXCEPT !.failure_count = Max(0, b2.failure_count - 1)]
    ELSE b2

\* variant: the circuit closes one success late
record_success_late(b) ==
    IF b.state = "CLOSED"
    THEN [b EXCEPT !.failure_count = 0]
    ELSE IF b.state = "HALF_OPEN"
    THEN LET n == b.half_open_calls + 1 IN
         IF n > circuit_breaker_half_open_max_calls
         THEN [b EXCEPT !.state = "CLOSED", !.failure_count = 0,
                        !.half_open_calls = 0]
         ELSE [b EXCEPT !.half_open_calls = n]
    ELSE b

\* variant: a success while Closed takes one failure off instead of all
record_success_decrement(b) ==
    IF b.state = "CLOSED"
    THEN [b EXCEPT !.failure_count = Max(0, b.failure_count - 1)]
    ELSE IF b.state = "HALF_OPEN"
    THEN LET n == b.half_open_calls + 1 IN
         IF n >= circuit_breaker_half_open_max_calls
         THEN [b EXCEPT !.state = "CLOSED", !.failure_count = 0,
                        !.half_open_calls = 0]
         ELSE [b EXCEPT !.half_open_calls = n]
    ELSE b

\* variant: a success also closes an Open circuit
record_success_closes_open(b) ==
    IF b.state = "CLOSED"
    THEN [b EXCEPT !.failure_count = 0]
    ELSE IF b.state = "HALF_OPEN"
    THEN LET n == b.half_open_calls + 1 IN
         IF n >= circuit_breaker_half_open_max_calls
         THEN [b EXCEPT !.state = "CLOSED", !.failure_count = 0,
                        !.half_open_calls = 0]
         ELSE [b EXCEPT !.half_open_calls = n]
    ELSE [b EXCEPT !.state = "CLOSED", !.failure_count = 0]

\* _record_success
record_success(b) ==
    IF b.state = "CLOSED"
    THEN [b EXCEPT !.failure_count = 0]
    ELSE IF b.state = "HALF_OPEN"
    THEN LET n == b.half_open_calls + 1 IN
         IF n >= circuit_breaker_half_open_max_calls
         THEN [b EXCEPT !.state = "CLOSED", !.failure_count = 0,
                        !.half_open_calls = 0]
         ELSE [b EXCEPT !.half_open_calls = n]
    ELSE b

\* variant: the state is reset and the failure count is left at the threshold
reset_circuit_breaker_state_only ==
    Breaker("CLOSED", circuit_breaker_threshold, 0, 0)

\* reset_circuit_breaker
reset_circuit_breaker_value == Breaker("CLOSED", 0, 0, 0)


(* ------------------------------- cache -------------------------------- *)
\* the result of a lookup that finds nothing
None == "<None>"

\* one item of the dict _cache: key -> (value, expires_at)
Entry(k, v, e) == [key |-> k, value |-> v, expires_at |-> e]

\* key in self._cache
HasKey(c, k) == \E i \in 1..Len(c) : c[i].key = k

\* self._cache[key]
Lookup(c, k) == c[CHOOSE i \in 1..Len(c) : c[i].key = k]

\* del self._cache[key] for every key of ks
DeleteKeys(c, ks) == SelectSeq(c, LAMBDA en : en.key \notin ks)

\* self._cache[key] = (value, expires_at): a key already present keeps its
\* place in the dict, a new one goes to the end
Store(c, en) ==
    IF HasKey(c, en.key)
    THEN [i \in 1..Len(c) |-> IF c[i].key = en.key THEN en ELSE c[i]]
    ELSE Append(c, en)

KeysOf(c) == {c[i].key : i \in 1..Len(c)}

\* the keys _evict_expired_cache_entries removes at time t
ExpiredKeys(c, t) == {c[i].key : i \in {j \in 1..Len(c) : t >= c[j].expires_at}}

\* _evict_expired_cache_entries
evict_expired_cache_entries(c, t) == DeleteKeys(c, ExpiredKeys(c, t))

\* position of item i in sorted(self._cache.items(), key=expires_at), from 0;
\* the sort is stable, so equal expiry times keep the dict order
SortedPosition(c, i) ==
    Cardinality({j \in 1..Len(c) :
                    \/ c[j].expires_at < c[i].expires_at
                    \/ (c[j].expires_at = c[i].expires_at /\ j < i)})

\* variant: the oldest entries are taken in dict order
OldestKeys_dict_order(c, count) ==
    IF count <= 0 \/ Len(c) = 0 THEN {}
    ELSE {c[i].key : i \in {j \in 1..Len(c) : j - 1 < count}}

\* keys_to_remove of _evict_oldest_cache_entries
OldestKeys(c, count) ==
    IF count <= 0 \/ Len(c) = 0 THEN {}
    ELSE {c[i].key : i \in {j \in 1..Len(c) : SortedPosition(c, j) < count}}

\* _evict_oldest_cache_entries
evict_oldest_cache_entries(c, count) == DeleteKeys(c, OldestKeys(c, count))

\* the size check of _set_cache: the cache once room has been made
make_room(c, max_size, t) ==
    IF Len(c) >= max_size
    THEN LET c1 == evict_expired_cache_entries(c, t) IN
         IF Len(c1) >= max_size
         THEN evict_oldest_cache_entries(c1, max_size \div 10)
         ELSE c1
    ELSE c

\* variant: a key that is still stored keeps its entry (dict.setdefault)
set_cache_setdefault(c, max_size, key, value, ttl, t) ==
    LET c1 == make_room(c, max_size, t) IN
    IF HasKey(c1, key) THEN c1 ELSE Store(c1, Entry(key, value, t + ttl))

\* _set_cache with ttl given
set_cache(c, max_size, key, value, ttl, t) ==
    Store(make_room(c, max_size, t), Entry(key, value, t + ttl))

\* variant: an entry is still returned at its expiry time
get_cached_value_at_expiry(c, key, t) ==
    IF HasKey(c, key) /\ t <= Lookup(c, key).expires_at
    THEN Lookup(c, key).value
    ELSE None

\* _get_cached: the value returned, None for a miss
get_cached_value(c, key, t) ==
    IF HasKey(c, key) /\ t < Lookup(c, key).expires_at
    THEN Lookup(c, key).value
    ELSE None

\* _get_cached: the cache it leaves
get_cached_cache(c, key, t) ==
    IF HasKey(c, key) /\ ~(t < Lookup(c, key).expires_at)
    THEN DeleteKeys(c, {key})
    ELSE c

\* configure_cache: the cache it leaves
configure_cache(c, max_size) ==
    IF Len(c) > max_size
    THEN evict_oldest_cache_entries(c, Len(c) - max_size)
    ELSE c

(* ------------------------------- state -------------------------------- *)
VARIABLES
    now,               \* the clock read by time.time()
    credentials,       \* TRUE when username and password are configured
    cb,                \* the breaker fields of the client
    auth_token,        \* _auth_token
    token_expires_at,  \* _token_expires_at
    pc,                \* per caller: where its _make_request is suspended
    attempt,           \* per caller: loop index of the running attempt
    transport_calls,   \* per caller: client.request invocations so far
    timeouts,          \* per caller: attempts ended in a transport timeout, -1 once one ended otherwise
    streak,            \* retriable failures recorded since the breaker was last Closed with count 0
    half_open_admitted,\* requests admitted since the breaker last became HalfOpen
    last,              \* the operation performed by the last step, its outcome, and the breaker it found
    cache,             \* _cache: the entries in the insertion order of the dict
    max_cache_size,    \* _max_cache_size
    call,              \* per caller: the cached operation it is running
    operation,         \* the cached operation the callers of this client use
    retry_delay,       \* retry_delay, in milliseconds
    max_retry_delay,   \* _max_retry_delay, in milliseconds
    batch,             \* per caller of the repository service: its batch_get_metadata call
    cache_stats,       \* _cache_stats: the hits and misses counters
    lookups            \* _get_cached calls made so far

vars == <<now, credentials, cb, auth_token, token_expires_at, pc, attempt,
          transport_calls, timeouts, streak, half_open_admitted, last,
          cache, max_cache_size, call, operation, retry_delay, max_retry_delay,
          batch, cache_stats, lookups>>

\* the variables of the response cache and of the operations that use it
cachevars == <<cache, max_cache_size, call, operation>>

\* the variables of the breaker, the retry loop and the token
requestvars == <<credentials, cb, auth_token, token_expires_at, pc, attempt,
                 transport_calls, timeouts, streak, half_open_admitted,
                 retry_delay, max_retry_delay>>

\* the delays of the retry policy
retryvars == <<retry_delay, max_retry_delay>>

\* the batches of the repository service and the statistics of the cache
servicevars == <<batch, cache_stats, lookups>>

\* _concurrent_limit
concurrent_limit == 5

\* repositories one call of batch_get_metadata finds uncached, at most
MaxRepositories == 6

\* a caller that is not inside batch_get_metadata: no semaphore exists
NoBatch ==
    [pc |-> "idle", semaphore |-> 0, pending |-> 0, fetching |-> 0,
     fetched |-> 0, failed |-> 0]

\* _cache_stats as the constructor sets it
InitialCacheStats == [hits |-> 0, misses |-> 0]

\* _get_cached calls followed by the statistics, at most
MaxLookups == 4

\* retry_delay and _max_retry_delay as the constructor sets them
default_retry_delay == 1000
default_max_retry_delay == 60000

NoToken == "<None>"
NoExpiry == -1
TokenBuffer == 60

\* token strings a token endpoint may answer with (access_token or token)
TokenValues == {"", "tok"}
\* expires_in of a token response; NoExpiry: the field is absent
ExpiresInValues == {NoExpiry}

\* status codes the registry may answer with
StatusCodes == {200, 400, 401, 403, 404, 409, 429, 500, 502, 503, 504}

\* WWW-Authenticate header of a 401 response
ChallengeKinds == {"bearer", "not_bearer", "no_realm", "bad_params"}

\* what one awaited client.request produces
TransportOutcomes ==
    [type : {"response"}, status : StatusCodes \ {401}, challenge : {"-"}]
      \cup [type : {"response"}, status : {401}, challenge : ChallengeKinds]
      \cup [type : {"TimeoutException", "RequestError", "Exception"},
            status : {NoStatus}, challenge : {"-"}]

\* what the last step did: the operation, what it returned, the exception it
\* raised, the caller's transport invocations, what it recorded with the
\* breaker, and the breaker as the step found it
Event(op, ret, exc, calls, recorded) ==
    [op |-> op, ret |-> ret, exc |-> exc, calls |-> calls,
     recorded |-> recorded, timeouts |-> 0, before |-> cb,
     authorization |-> "-", token_check |-> "-", expires_in |-> NoExpiry]

\* the event of a finished request also tells how its attempts ended
WithTimeouts(ev, tm) == [ev EXCEPT !.timeouts = tm]

\* the event of an awaited client.request also tells the Authorization
\* header the request carries
WithAuthorization(ev, header) == [ev EXCEPT !.authorization = header]

\* the event of a request re-issued after a token exchange also tells the
\* expires_in the token response declared, NoExpiry when it declared none
WithExpiresIn(ev, expires_in) == [ev EXCEPT !.expires_in = expires_in]

\* the event of an operation that began with _ensure_authenticated also
\* tells how _is_token_expired found the token
WithTokenCheck(ev, check) == [ev EXCEPT !.token_check = check]

\* bool(token) of a token string
TruthyToken(token) == token \notin {NoToken, ""}

\* the Authorization header _make_request prepares before its loop
AuthorizationHeader(token, has_credentials) ==
    IF TruthyToken(token) THEN "Bearer " \o token
    ELSE IF has_credentials THEN "Basic"
    ELSE "none"

\* _is_token_expired at time t
is_token_expired(token, expires_at, t) ==
    IF ~TruthyToken(token) THEN TRUE
    ELSE IF expires_at # NoExpiry /\ expires_at # 0 THEN t >= expires_at
    ELSE FALSE

\* _ensure_authenticated that forgets the expiry and keeps the token
ensure_authenticated_keeps_token(token, expires_at, t) ==
    IF is_token_expired(token, expires_at, t)
    THEN [token |-> token, expires_at |-> NoExpiry]
    ELSE [token |-> token, expires_at |-> expires_at]

\* _ensure_authenticated at time t: the token and the expiry it leaves
ensure_authenticated(token, expires_at, t) ==
    IF is_token_expired(token, expires_at, t)
    THEN [token |-> NoToken, expires_at |-> NoExpiry]
    ELSE [token |-> token, expires_at |-> expires_at]

\* _obtain_bearer_token that drops the held token when the token request
\* fails
obtain_bearer_token_forgets(token, expires_at, t, tm) ==
    IF ~t.ok THEN [token |-> NoToken, expires_at |-> NoExpiry]
    ELSE [token |-> t.token,
          expires_at |-> IF t.expires_in # NoExpiry /\ t.expires_in # 0
                         THEN tm + t.expires_in - TokenBuffer
                         ELSE expires_at]

\* the token and the expiry _obtain_bearer_token leaves when the token
\* endpoint answers t at time tm: a failure raises before anything is stored
obtain_bearer_token(token, expires_at, t, tm) ==
    IF ~t.ok THEN [token |-> token, expires_at |-> expires_at]
    ELSE [token |-> t.token,
          expires_at |-> IF t.expires_in # NoExpiry /\ t.expires_in # 0
                         THEN tm + t.expires_in - TokenBuffer
                         ELSE expires_at]

\* the 401 branch goes round the loop again whatever the token and the
\* attempt
reissue_after_exchange_always(token, att) == TRUE

\* the condition under which the 401 branch goes round the loop again
reissue_after_exchange(token, att) ==
    TruthyToken(token) /\ att < max_retries

\* a counter that stops at cap
Saturate(n, cap) == IF n >= cap THEN cap ELSE n

\* half_open_admitted after a breaker change from b to b2, admitting or not
AdmittedAfter(b, b2, admits) ==
    LET base == IF b2.state # "HALF_OPEN" THEN 0
                ELSE IF b.state # "HALF_OPEN" THEN 0
                ELSE half_open_admitted
    IN IF admits /\ b2.state = "HALF_OPEN"
       THEN Saturate(base + 1, circuit_breaker_half_open_max_calls + 1)
       ELSE base

\* streak after a record_failure on b
StreakAfterFailure(b, is_retriable) ==
    IF b.state = "CLOSED" /\ is_retriable THEN streak + 1 ELSE streak

\* streak after a record_success on b
StreakAfterSuccess(b) ==
    IF record_success(b).state = "CLOSED" THEN 0 ELSE streak

\* _max_cache_size and _cache_ttl as the constructor sets them; the clock
\* counts units of 30 s
default_max_cache_size == 1000
cache_ttl == 10

CacheSizes == {SmallCacheSize, LargeCacheSize}

\* keys and values the callers of the cache use
CacheKeys == {"a", "b"}
CacheValues == {"v1", "v2"}

\* ttl argument of _set_cache; NoTTL: the argument is left out
NoTTL == -1
TTLValues == {NoTTL, 1}

\* keys of entries stored earlier and not asked for again
FillerKeys == <<"f1", "f2", "f3", "f4", "f5", "f6", "f7", "f8", "f9", "f10",
                "f11", "f12">>

\* n such entries, stored at time 0 or before with various ttl, so that the
\* dict order is not the order of the expiry times
Fillers(n) == [i \in 1..n |-> Entry(FillerKeys[i], "v0", 1 + ((i + 1) % 3))]

CacheOps == {"get", "set", "configure", "clear"}

\* the step before a cache operation: its arguments when it was one too
Previous ==
    IF last.op \in CacheOps
    THEN [op |-> last.op, key |-> last.key, value |-> last.value]
    ELSE [op |-> last.op, key |-> "-", value |-> "-"]

\* the event of a cache operation: besides the fields of every event, its
\* arguments, what it added to the counters of _cache_stats, the keys it
\* removed, the number of entries it found and the step before it
CacheEvent(op, key, value, ret, hits, misses, evicted) ==
    [op |-> op, ret |-> ret, exc |-> NoException, calls |-> 0,
     recorded |-> "none", timeouts |-> 0, before |-> cb,
     key |-> key, value |-> value, hits |-> hits, misses |-> misses,
     evictions |-> Cardinality(evicted), evicted |-> evicted,
     size_before |-> Len(cache), prev |-> Previous]

\* a caller that runs no cached operation
NoCall == [op |-> "none", stack |-> <<>>, upstream |-> 0, hits |-> 0,
           misses |-> 0]

(* -------------------------- cached operations ------------------------- *)
CachedOperations ==
    {"list_repositories", "get_repository_info", "list_tags", "get_manifest",
     "get_config_blob", "get_image_info", "get_detailed_image_info"}

\* the operations that call other cached operations instead of _make_request
CompositeOperations == {"get_image_info", "get_detailed_image_info"}

\* cache_key of an operation, for the one tuple of arguments the callers use
\* (repository r, tag t, the default media type m, the config digest d of the
\* manifest of r:t)
CacheKey(op) ==
    CASE op = "list_repositories" -> "repositories:None:None:False"
      [] op = "get_repository_info" -> "repo_info:r"
      [] op = "list_tags" -> "tags:r"
      [] op = "get_manifest" -> "manifest:r:t:m"
      [] op = "get_config_blob" -> "config_blob:r:d"
      [] op = "get_image_info" -> "image_info:r:t"
      [] op = "get_detailed_image_info" -> "detailed_image_info:r:t"

\* the ttl each operation passes to _set_cache, in units of 30 s
OperationTTL(op) ==
    CASE op = "list_repositories" -> 1
      [] op = "get_repository_info" -> 10
      [] op = "list_tags" -> 4
      [] op = "get_manifest" -> 20
      [] op = "get_config_blob" -> 120
      [] op = "get_image_info" -> 10
      [] op = "get_detailed_image_info" -> 20

\* a document that has none of the fields the models require and whose
\* config member is null
NullConfig == "{config:null}"

\* what response.json() gives for a successful response: one of two well
\* formed documents, the empty document {}, or NullConfig
ResponseBodies == {"v1", "v2", "{}", NullConfig}

\* the document has the fields the model of the operation requires
WellFormed(body) == body \in {"v1", "v2"}

\* errors _make_request may raise to the operation
UpstreamErrors == {RegistryNotFoundError(404), RegistryServerError(500)}

\* what an awaited _make_request produces
UpstreamOutcomes ==
    [ok : {TRUE}, body : ResponseBodies, exc : {NoException}]
      \cup [ok : {FALSE}, body : {"-"}, exc : UpstreamErrors]

\* what an operation makes of the response body: the value it caches and
\* returns, or the exception it raises
ParseResponse(op, body) ==
    CASE op = "list_repositories" ->
           \* RepositoryCatalog(**catalog_data) needs repositories
           IF ~WellFormed(body) THEN [ok |-> FALSE, value |-> None,
                                exc |-> RegistryException(NoStatus)]
           ELSE [ok |-> TRUE, value |-> "catalog(" \o body \o ")",
                 exc |-> NoException]
      [] op = "get_repository_info" ->
           \* TagsList(**tags_data) needs name and tags
           IF ~WellFormed(body) THEN [ok |-> FALSE, value |-> None,
                                exc |-> RegistryException(NoStatus)]
           ELSE [ok |-> TRUE, value |-> "repo_info(" \o body \o ")",
                 exc |-> NoException]
      [] op = "list_tags" ->
           IF ~WellFormed(body) THEN [ok |-> FALSE, value |-> None,
                                exc |-> RegistryException(NoStatus)]
           ELSE [ok |-> TRUE, value |-> "tags(" \o body \o ")",
                 exc |-> NoException]
      [] op = "get_manifest" ->
           \* _validate_manifest_data
           IF ~WellFormed(body) THEN [ok |-> FALSE, value |-> None,
                                exc |-> RegistryValidationError(422)]
           ELSE [ok |-> TRUE, value |-> "manifest(" \o body \o ")",
                 exc |-> NoException]
      [] op = "get_config_blob" ->
           [ok |-> TRUE, value |-> body, exc |-> NoException]

\* the ImageInfo get_image_info builds from a manifest
ImageInfoOf(manifest) == "image_info(" \o manifest \o ")"

\* _parse_manifest_metadata reads config_data.get("config", {}).get(...)
\* whenever config_data is truthy, which fails on a null config member
parse_manifest_metadata_raises(config_data) == config_data = NullConfig

\* the exception _parse_manifest_metadata then ends the try block with
MetadataCause == [kind |-> "AttributeError", status |-> NoStatus]

\* the ImageInfo get_detailed_image_info builds from manifest and config blob
DetailedImageInfoOf(manifest, config_data) ==
    "detailed_image_info(" \o manifest \o "," \o config_data \o ")"

\* the exception an operation raises for an exception of its request
OperationError(op, e) ==
    IF e.kind = "RegistryNotFoundError" /\ op \in {"get_repository_info",
           "list_tags", "get_manifest", "get_config_blob"}
    THEN RegistryNotFoundError(404)
    ELSE e

\* the exception that ends the try block of an operation whose response
\* was received but not accepted: the RegistryValidationError get_manifest
\* raises itself, else the ValidationError of the pydantic model
ParseCause(op) ==
    IF op = "get_manifest" THEN RegistryValidationError(422)
    ELSE [kind |-> "ValidationError", status |-> NoStatus]

\* str(e) of the exception that ended the try block
OriginalMessage == "original message"

\* the message of the RegistryNotFoundError an operation raises in place of
\* the one of its request
NotFoundMessage(op) ==
    CASE op \in {"get_repository_info", "list_tags"} ->
           "Repository 'r' not found"
      [] op = "get_manifest" -> "Tag 't' not found in repository 'r'"
      [] op = "get_config_blob" ->
           "Config blob 'd' not found in repository 'r'"

\* the beginning of the message of the RegistryException an operation
\* raises for an exception that is no RegistryException
FailurePrefix(op) ==
    CASE op = "list_repositories" -> "Failed to list repositories: "
      [] op = "get_repository_info" ->
           "Failed to get repository info for 'r': "
      [] op = "list_tags" -> "Failed to list tags for 'r': "
      [] op = "get_manifest" -> "Failed to get manifest for 'r:t': "
      [] op = "get_config_blob" -> "Failed to get config blob 'd' for 'r': "
      [] op = "get_image_info" -> "Failed to get image info for 'r:t': "
      [] op = "get_detailed_image_info" ->
           "Failed to get detailed image info for 'r:t': "

IsRegistryException(e) ==
    e.kind \in {"RegistryException", "RegistryAuthError",
                "RegistryNotFoundError", "RegistryConnectionError",
                "RegistryTimeoutError", "RegistryPermissionError",
                "RegistryRateLimitError", "RegistryServerError",
                "RegistryValidationError", "RegistryUnavailableError"}

\* variant: the not-found error of the request is passed on as it came
operation_message_unscoped(op, cause) ==
    IF IsRegistryException(cause) THEN OriginalMessage
    ELSE FailurePrefix(op) \o OriginalMessage

\* the message of the exception that leaves the except clauses of op when
\* its try block ended with cause
operation_message(op, cause) ==
    IF cause.kind = "RegistryNotFoundError" /\ op \in {"get_repository_info",
           "list_tags", "get_manifest", "get_config_blob"}
    THEN NotFoundMessage(op)
    ELSE IF IsRegistryException(cause) THEN OriginalMessage
    ELSE FailurePrefix(op) \o OriginalMessage

\* bool(cached_result)
Truthy(v) == v \notin {None, "{}"}

\* one activation of a cached operation: where it stands and the manifest
\* it holds
Frame(op, stage, held) == [op |-> op, stage |-> stage, held |-> held]

Top(stack) == stack[Len(stack)]
Pop(stack) == SubSeq(stack, 1, Len(stack) - 1)
ReplaceTop(stack, f) == [stack EXCEPT ![Len(stack)] = f]

\* A running call with the cache it works on: c the cache, stack the
\* activations, status one of run, await, return, raise.
\* Deliver: the operation on top of the stack has returned v to its caller,
\* which has been made the top; the caller goes on to its next await, to
\* its own return, or raises when it cannot build its result from v.
RECURSIVE Deliver(_, _, _)
Deliver(m, v, t) ==
    IF Len(m.stack) = 0
    THEN [m EXCEPT !.status = "return", !.ret = v]
    ELSE LET f == Top(m.stack) IN
         IF f.op = "get_image_info"
         THEN LET info == ImageInfoOf(v) IN
              Deliver([m EXCEPT !.c = set_cache(m.c, m.max_size, CacheKey(f.op),
                                                info, OperationTTL(f.op), t),
                                !.stack = Pop(m.stack)],
                      info, t)
         ELSE IF f.stage = "manifest"
         THEN [m EXCEPT !.stack = Append(ReplaceTop(m.stack,
                                             Frame(f.op, "config_blob", v)),
                                         Frame("get_config_blob", "enter", "-"))]
         ELSE IF parse_manifest_metadata_raises(v)
         THEN [m EXCEPT !.status = "raise"]
         ELSE LET info == DetailedImageInfoOf(f.held, v) IN
              Deliver([m EXCEPT !.c = set_cache(m.c, m.max_size, CacheKey(f.op),
                                                info, OperationTTL(f.op), t),
                                !.stack = Pop(m.stack)],
                      info, t)

\* Run: the call runs on from the entry of the operation on top of the
\* stack up to its next awaited _make_request or its return
RECURSIVE Run(_, _)
Run(m, t) ==
    IF m.status # "run" THEN m
    ELSE LET f == Top(m.stack)
             k == CacheKey(f.op)
             cached_result == get_cached_value(m.c, k, t)
             c2 == get_cached_cache(m.c, k, t)
             hit == HasKey(m.c, k) /\ c2 = m.c
             m1 == [m EXCEPT !.c = c2,
                             !.hits = IF hit THEN @ + 1 ELSE @,
                             !.misses = IF hit THEN @ ELSE @ + 1]
         IN IF Truthy(cached_result)
            THEN Run(Deliver([m1 EXCEPT !.stack = Pop(m1.stack)],
                             cached_result, t), t)
            ELSE IF f.op \in CompositeOperations
            THEN Run([m1 EXCEPT !.stack =
                         Append(ReplaceTop(m1.stack, Frame(f.op, "manifest", "-")),
                                Frame("get_manifest", "enter", "-"))], t)
            ELSE [m1 EXCEPT !.stack = ReplaceTop(m1.stack,
                                                 Frame(f.op, "request", "-")),
                            !.upstream = @ + 1,
                            !.status = "await"]

\* the call of caller r as a running call on the current cache
Running(r, stack) ==
    [c |-> cache, max_size |-> max_cache_size, stack |-> stack,
     status |-> "run", ret |-> None, upstream |-> call[r].upstream,
     hits |-> call[r].hits, misses |-> call[r].misses]

\* the event of a step of a cached operation: besides the fields of every
\* event, the operation called, whether the step began the call, the
\* unexpired value the step found under the key of the operation it runs,
\* when the call began or when its response came (None without one), and
\* the call's _make_request calls, hits and misses so far
OperationEvent(op, name, started, found, m, e) ==
    [op |-> op, ret |-> m.ret, exc |-> e, calls |-> 0, recorded |-> "none",
     timeouts |-> 0, before |-> cb,
     operation |-> name, started |-> started, found |-> found,
     upstream |-> m.upstream, hits |-> m.hits, misses |-> m.misses,
     failed |-> "-", cause |-> NoException, message |-> NoMessage,
     body |-> "-", size_before |-> Len(cache)]

\* the event of an operation that raises also tells the operation whose
\* try block failed, the exception that ended the block, the message of
\* the exception raised and the body of the response, if one came
WithFailure(ev, op, cause, body) ==
    [ev EXCEPT !.failed = op, !.cause = cause,
               !.message = operation_message(op, cause), !.body = body]

\* the caller's state and the event once its call has run to m; body is
\* the body of the response the step began with, if it began with one
AfterRun(r, name, started, found, body, m) ==
    /\ cache' = m.c
    /\ IF m.status = "return"
       THEN /\ call' = [call EXCEPT ![r] = NoCall]
            /\ last' = OperationEvent("operation_return", name, started, found,
                                      m, NoException)
       ELSE IF m.status = "raise"
       THEN /\ call' = [call EXCEPT ![r] = NoCall]
            /\ last' = WithFailure(
                         OperationEvent("operation_raise", name, started, found,
                                        m, RegistryException(NoStatus)),
                         Top(m.stack).op, MetadataCause, body)
       ELSE /\ call' = [call EXCEPT ![r] =
                          [op |-> name, stack |-> m.stack,
                           upstream |-> m.upstream, hits |-> m.hits,
                           misses |-> m.misses]]
            /\ last' = OperationEvent("operation_await", name, started, found,
                                      m, NoException)

Init ==
    /\ cache = <<>>
    /\ max_cache_size = default_max_cache_size
    /\ call = [r \in Requests |-> NoCall]
    /\ operation = "none"
    /\ now = 0
    /\ credentials \in BOOLEAN
    /\ cb = InitialBreaker
    /\ auth_token = NoToken
    /\ token_expires_at = NoExpiry
    /\ pc = [r \in Requests |-> "idle"]
    /\ attempt = [r \in Requests |-> 0]
    /\ transport_calls = [r \in Requests |-> 0]
    /\ timeouts = [r \in Requests |-> 0]
    /\ streak = 0
    /\ half_open_admitted = 0
    /\ retry_delay = default_retry_delay
    /\ max_retry_delay = default_max_retry_delay
    /\ batch = [r \in Requests |-> NoBatch]
    /\ cache_stats = InitialCacheStats
    /\ lookups = 0
    /\ last = Event("init", "-", NoException, 0, "none")

(* ------------------------------ actions ------------------------------- *)
\* time passes
Tick ==
    /\ now < MaxTime
    /\ now' = now + 1
    /\ last' = Event("tick", "-", NoException, 0, "none")
    /\ UNCHANGED <<credentials, cb, auth_token, token_expires_at, pc, attempt,
                   transport_calls, timeouts, streak, half_open_admitted>>
    /\ UNCHANGED cachevars
    /\ UNCHANGED retryvars
    /\ UNCHANGED servicevars

\* _get_circuit_breaker_info (also reached through get_health_status)
GetCircuitBreakerInfo ==
    LET b2 == get_circuit_breaker_state(cb, now) IN
    /\ cb' = b2
    /\ half_open_admitted' = AdmittedAfter(cb, b2, FALSE)
    /\ last' = Event("query", b2.state, NoException, 0, "none")
    /\ UNCHANGED <<now, credentials, auth_token, token_expires_at, pc, attempt,
                   transport_calls, timeouts, streak>>
    /\ UNCHANGED cachevars
    /\ UNCHANGED retryvars
    /\ UNCHANGED servicevars

\* the caller's locals once its _make_request has returned or raised
Finished(r) ==
    /\ pc' = [pc EXCEPT ![r] = "idle"]
    /\ attempt' = [attempt EXCEPT ![r] = 0]
    /\ transport_calls' = [transport_calls EXCEPT ![r] = 0]
    /\ timeouts' = [timeouts EXCEPT ![r] = 0]

\* _make_request up to its first await: the breaker check, then the first
\* client.request of the loop
BeginRequest(r, token, check) ==
    LET b2 == get_circuit_breaker_state(cb, now) IN
    /\ pc[r] = "idle"
    /\ cb' = b2
    /\ IF ~can_make_request(b2)
       THEN /\ last' = WithTokenCheck(
                         Event("start",
                               IF b2.state = "OPEN" THEN "Circuit breaker is open"
                               ELSE "Circuit breaker limits exceeded",
                               RegistryConnectionError(NoStatus), 0, "none"),
                         check)
            /\ half_open_admitted' = AdmittedAfter(cb, b2, FALSE)
            /\ UNCHANGED <<pc, attempt, transport_calls, timeouts>>
       ELSE /\ pc' = [pc EXCEPT ![r] = "request"]
            /\ attempt' = [attempt EXCEPT ![r] = 0]
            /\ transport_calls' = [transport_calls EXCEPT ![r] = 1]
            /\ timeouts' = [timeouts EXCEPT ![r] = 0]
            /\ half_open_admitted' = AdmittedAfter(cb, b2, TRUE)
            /\ last' = WithTokenCheck(
                         WithAuthorization(
                            Event("start", "admitted", NoException, 1, "none"),
                            AuthorizationHeader(token, credentials)),
                         check)
    /\ UNCHANGED <<now, credentials, streak>>
    /\ UNCHANGED retryvars
    /\ UNCHANGED servicevars

\* _make_request called with the cache left alone
RequestWithToken(r, token, check) ==
    /\ BeginRequest(r, token, check)
    /\ UNCHANGED cachevars

\* _make_request called on its own
StartRequest(r) ==
    /\ RequestWithToken(r, auth_token, "-")
    /\ UNCHANGED <<auth_token, token_expires_at>>

\* the loop moves on to its next iteration and awaits the next client.request
NextAttempt(r) ==
    /\ pc' = [pc EXCEPT ![r] = "request"]
    /\ attempt' = [attempt EXCEPT ![r] = attempt[r] + 1]
    /\ transport_calls' = [transport_calls EXCEPT ![r] = transport_calls[r] + 1]
    /\ UNCHANGED <<cb, streak, half_open_admitted>>

\* the bare raise inside the loop: the exception leaves _make_request at once
RaiseImmediately(r, e, tm) ==
    /\ Finished(r)
    /\ last' = WithTimeouts(Event("raise", "raise", e, transport_calls[r],
                                  "none"), tm)
    /\ UNCHANGED <<cb, streak, half_open_admitted>>

\* after the loop: record the failure, raise last_exception
AfterLoop(r, e, tm) ==
    LET is_retriable == is_retriable_error(e)
        b2 == record_failure(cb, now, is_retriable)
    IN /\ Finished(r)
       /\ cb' = b2
       /\ streak' = StreakAfterFailure(cb, is_retriable)
       /\ half_open_admitted' = AdmittedAfter(cb, b2, FALSE)
       /\ last' = WithTimeouts(Event("raise", "raise", e, transport_calls[r],
                                     IF is_retriable THEN "failure_retriable"
                                     ELSE "failure_not_retriable"), tm)

\* the backoff sleep before the next attempt
Sleep(r, e) ==
    /\ pc' = [pc EXCEPT ![r] = "sleep"]
    /\ last' = Event("sleep", "-", e, transport_calls[r], "none")
    /\ UNCHANGED <<cb, attempt, transport_calls, streak, half_open_admitted>>

\* variant: a non-retriable error is retried like a retriable one
ExceptClause_retry_any(r, e, handler, tm) ==
    IF attempt[r] < max_retries
    THEN Sleep(r, e) /\ timeouts' = [timeouts EXCEPT ![r] = tm]
    ELSE IF handler = "RegistryException"
    THEN RaiseImmediately(r, e, tm)
    ELSE AfterLoop(r, e, tm)

\* variant: the loop allows one attempt more
ExceptClause_extra_attempt(r, e, handler, tm) ==
    IF handler = "RegistryException"
       /\ ~(is_retriable_error(e) /\ attempt[r] < max_retries + 1)
    THEN RaiseImmediately(r, e, tm)
    ELSE IF ~is_retriable_error(e)
    THEN AfterLoop(r, e, tm)
    ELSE IF attempt[r] < max_retries + 1
    THEN Sleep(r, e) /\ timeouts' = [timeouts EXCEPT ![r] = tm]
    ELSE AfterLoop(r, e, tm)

\* the except clauses of the loop and the code after them; handler names the
\* clause that caught e
ExceptClause(r, e, handler, tm) ==
    IF handler = "RegistryException"
       /\ ~(is_retriable_error(e) /\ attempt[r] < max_retries)
    THEN RaiseImmediately(r, e, tm)
    ELSE IF ~is_retriable_error(e)
    THEN AfterLoop(r, e, tm)
    ELSE IF attempt[r] < max_retries
    THEN Sleep(r, e) /\ timeouts' = [timeouts EXCEPT ![r] = tm]
    ELSE AfterLoop(r, e, tm)

\* how the count of timed-out attempts moves with the outcome of an attempt
TimeoutsAfter(r, outcome) ==
    IF timeouts[r] >= 0 /\ outcome.type = "TimeoutException"
    THEN timeouts[r] + 1 ELSE -1

\* the answer to an awaited client.request arrives: the rest of the loop
\* body, up to the next await, the return or the raise
LoopBody(r, outcome) ==
    LET tm == TimeoutsAfter(r, outcome) IN
    /\ pc[r] = "request"
    /\ IF outcome.type = "TimeoutException"
       THEN ExceptClause(r, RegistryTimeoutError(408), "TimeoutException", tm)
       ELSE IF outcome.type = "RequestError"
       THEN ExceptClause(r, RegistryConnectionError(NoStatus), "RequestError", tm)
       ELSE IF outcome.type = "Exception"
       THEN ExceptClause(r, RegistryException(NoStatus), "Exception", tm)
       ELSE IF outcome.status = 401
       THEN \* _handle_auth_challenge up to the token request
            IF outcome.challenge \in {"not_bearer", "no_realm"}
            THEN ExceptClause(r, RegistryAuthError(NoStatus), "RegistryException", tm)
            ELSE IF outcome.challenge = "bad_params"
            THEN \* AuthChallenge(**challenge_params) fails its validation
                 ExceptClause(r, RegistryException(NoStatus), "Exception", tm)
            ELSE IF ~credentials
            THEN ExceptClause(r, RegistryAuthError(NoStatus), "RegistryException", tm)
            ELSE /\ pc' = [pc EXCEPT ![r] = "token"]
                 /\ timeouts' = [timeouts EXCEPT ![r] = tm]
                 /\ last' = Event("challenge", "-", NoException,
                                  transport_calls[r], "none")
                 /\ UNCHANGED <<cb, attempt, transport_calls, streak,
                                half_open_admitted>>
       ELSE IF outcome.status >= 400
       THEN ExceptClause(r, handle_error_response(outcome.status),
                         "RegistryException", tm)
       ELSE LET b2 == record_success(cb) IN
            /\ Finished(r)
            /\ cb' = b2
            /\ streak' = StreakAfterSuccess(cb)
            /\ half_open_admitted' = AdmittedAfter(cb, b2, FALSE)
            /\ last' = WithTimeouts(Event("return", "response", NoException,
                                          transport_calls[r], "success"),
                                    timeouts[r])
    /\ UNCHANGED <<now, credentials, auth_token, token_expires_at>>
    /\ UNCHANGED retryvars
    /\ UNCHANGED servicevars

\* the answer arrives for a _make_request called on its own
TransportResponse(r, outcome) ==
    /\ LoopBody(r, outcome)
    /\ UNCHANGED cachevars

\* answers of the token endpoint: a failure, or a BearerToken body
TokenOutcomes ==
    [ok : {FALSE}, token : {""}, expires_in : {NoExpiry}]
      \cup [ok : {TRUE}, token : TokenValues, expires_in : ExpiresInValues]

\* the answer to the token request of _obtain_bearer_token arrives; then the
\* rest of the 401 branch of the loop body
TokenResponse(r, t) ==
    /\ pc[r] = "token"
    /\ auth_token' = obtain_bearer_token(auth_token, token_expires_at, t, now).token
    /\ token_expires_at' =
          obtain_bearer_token(auth_token, token_expires_at, t, now).expires_at
    /\ IF ~t.ok
       THEN ExceptClause(r, RegistryAuthError(NoStatus), "RegistryException",
                         timeouts[r])
       ELSE IF reissue_after_exchange(t.token, attempt[r])
               THEN /\ NextAttempt(r)
                    /\ last' = WithExpiresIn(
                                 WithAuthorization(
                                    Event("reissue", "-", NoException,
                                          transport_calls[r] + 1, "none"),
                                    "Bearer " \o t.token),
                                 t.expires_in)
                    /\ UNCHANGED timeouts
               ELSE ExceptClause(r, handle_error_response(401),
                                 "RegistryException", timeouts[r])
    /\ UNCHANGED <<now, credentials>>
    /\ UNCHANGED cachevars
    /\ UNCHANGED retryvars
    /\ UNCHANGED servicevars

\* the backoff sleep is over
WakeUp(r) ==
    /\ pc[r] = "sleep"
    /\ NextAttempt(r)
    /\ last' = Event("retry", "-", NoException, transport_calls[r] + 1, "none")
    /\ UNCHANGED <<now, credentials, auth_token, token_expires_at, timeouts>>
    /\ UNCHANGED cachevars
    /\ UNCHANGED retryvars
    /\ UNCHANGED servicevars

\* reset_circuit_breaker
ResetCircuitBreaker ==
    /\ cb' = reset_circuit_breaker_value
    /\ streak' = 0
    /\ half_open_admitted' = 0
    /\ last' = Event("reset", "-", NoException, 0, "none")
    /\ UNCHANGED <<now, credentials, auth_token, token_expires_at, pc, attempt,
                   transport_calls, timeouts>>
    /\ UNCHANGED cachevars
    /\ UNCHANGED retryvars
    /\ UNCHANGED servicevars

\* variant: the entries are kept
cache_clear_keeps(c) == c

\* self._cache.clear()
cache_clear(c) == <<>>

\* the event of close: besides the fields of every event, the number of
\* entries and the token held before it
CloseEvent ==
    [op |-> "close", ret |-> "-", exc |-> NoException, calls |-> 0,
     recorded |-> "none", timeouts |-> 0, before |-> cb,
     authorization |-> "-", token_check |-> "-", expires_in |-> NoExpiry,
     size_before |-> Len(cache), token_before |-> auth_token,
     expiry_before |-> token_expires_at]

\* close
Close ==
    /\ auth_token' = NoToken
    /\ token_expires_at' = NoExpiry
    /\ cb' = reset_circuit_breaker_value
    /\ streak' = 0
    /\ half_open_admitted' = 0
    /\ cache' = cache_clear(cache)
    /\ last' = CloseEvent
    /\ UNCHANGED <<now, credentials, pc, attempt, transport_calls, timeouts>>
    /\ UNCHANGED <<max_cache_size, call, operation>>
    /\ UNCHANGED retryvars
    /\ UNCHANGED servicevars

\* _get_cached
GetCached(key) ==
    LET found == HasKey(cache, key)
        ret == get_cached_value(cache, key, now)
        c2 == get_cached_cache(cache, key, now)
    IN /\ cache' = c2
       /\ last' = CacheEvent("get", key, "-", ret,
                                   IF found /\ c2 = cache THEN 1 ELSE 0,
                                   IF found /\ c2 = cache THEN 0 ELSE 1,
                                   KeysOf(cache) \ KeysOf(c2))
       /\ UNCHANGED <<now, max_cache_size, call, operation>>
       /\ UNCHANGED requestvars
       /\ UNCHANGED servicevars

\* _set_cache
SetCache(key, value, ttl) ==
    LET c2 == set_cache(cache, max_cache_size, key, value,
                        IF ttl = NoTTL THEN cache_ttl ELSE ttl, now)
    IN /\ cache' = c2
       /\ last' = CacheEvent("set", key, value, "-", 0, 0,
                                   KeysOf(cache) \ KeysOf(c2))
       /\ UNCHANGED <<now, max_cache_size, call, operation>>
       /\ UNCHANGED requestvars
       /\ UNCHANGED servicevars

\* configure_cache
ConfigureCache(max_size) ==
    LET c2 == configure_cache(cache, max_size) IN
    /\ max_cache_size' = max_size
    /\ cache' = c2
    /\ last' = CacheEvent("configure", "-", "-", "-", 0, 0,
                                KeysOf(cache) \ KeysOf(c2))
    /\ UNCHANGED <<now, call, operation>>
    /\ UNCHANGED requestvars
    /\ UNCHANGED servicevars

\* clear_cache without a pattern
ClearCache ==
    /\ cache' = cache_clear(cache)
    /\ last' = CacheEvent("clear", "-", "-", "-", 0, 0, KeysOf(cache))
    /\ UNCHANGED <<now, max_cache_size, call, operation>>
    /\ UNCHANGED requestvars
    /\ UNCHANGED servicevars

Next ==
    \/ Tick
    \/ GetCircuitBreakerInfo
    \/ \E r \in Requests : StartRequest(r)
    \/ \E r \in Requests : \E outcome \in TransportOutcomes :
          TransportResponse(r, outcome)
    \/ \E r \in Requests : \E t \in TokenOutcomes : TokenResponse(r, t)
    \/ \E r \in Requests : WakeUp(r)
    \/ ResetCircuitBreaker
    \/ Close

Spec == Init /\ [][Next]_vars

\* a caller calls the cached operation: _ensure_authenticated finds no token
\* to clear, then the operation runs up to its first awaited _make_request
\* or returns from the cache
CallOperation(r) ==
    /\ call[r] = NoCall
    /\ LET m == Run(Running(r, <<Frame(operation, "enter", "-")>>), now) IN
       AfterRun(r, operation, TRUE,
                get_cached_value(cache, CacheKey(operation), now), "-", m)
    /\ UNCHANGED <<now, max_cache_size, operation>>
    /\ UNCHANGED requestvars
    /\ UNCHANGED servicevars

\* variant: the body of a received response is stored before it is parsed
cache_after_failure_unparsed(c, max_size, op, outcome, t) ==
    IF outcome.ok
    THEN set_cache(c, max_size, CacheKey(op), outcome.body, OperationTTL(op), t)
    ELSE c

\* the cache when the try block of op has ended with an exception:
\* _set_cache is the last statement before return, behind the request, the
\* parsing and the validation, so it was not reached
cache_after_failure(c, max_size, op, outcome, t) == c

\* the awaited _make_request of a call ends: the operation parses and
\* caches the response and runs on, or raises
UpstreamResponse(r, outcome) ==
    LET f == Top(call[r].stack)
        parsed == ParseResponse(f.op, outcome.body)
        m0 == Running(r, call[r].stack)
    IN /\ call[r] # NoCall
       /\ IF outcome.ok /\ parsed.ok
          THEN LET m1 == [m0 EXCEPT
                            !.c = set_cache(cache, max_cache_size, CacheKey(f.op),
                                            parsed.value, OperationTTL(f.op), now),
                            !.stack = Pop(m0.stack)]
               IN AfterRun(r, call[r].op, FALSE,
                           get_cached_value(cache, CacheKey(f.op), now),
                           outcome.body,
                           Run(Deliver(m1, parsed.value, now), now))
          ELSE /\ call' = [call EXCEPT ![r] = NoCall]
               /\ last' = WithFailure(
                            OperationEvent("operation_raise", call[r].op, FALSE,
                                           None, m0,
                                           IF outcome.ok THEN parsed.exc
                                           ELSE OperationError(f.op, outcome.exc)),
                            f.op,
                            IF outcome.ok THEN ParseCause(f.op) ELSE outcome.exc,
                            outcome.body)
               /\ cache' = cache_after_failure(cache, max_cache_size, f.op,
                                               outcome, now)
       /\ UNCHANGED <<now, max_cache_size, operation>>
       /\ UNCHANGED requestvars
       /\ UNCHANGED servicevars

\* the cache of a client whose callers use one of the cached operations
OperationInit ==
    /\ operation \in CachedOperations
    /\ max_cache_size = default_max_cache_size
    /\ cache = <<>>
    /\ call = [r \in Requests |-> NoCall]
    /\ now = 0
    /\ credentials = TRUE
    /\ cb = InitialBreaker
    /\ auth_token = NoToken
    /\ token_expires_at = NoExpiry
    /\ pc = [r \in Requests |-> "idle"]
    /\ attempt = [r \in Requests |-> 0]
    /\ transport_calls = [r \in Requests |-> 0]
    /\ timeouts = [r \in Requests |-> 0]
    /\ streak = 0
    /\ half_open_admitted = 0
    /\ retry_delay = default_retry_delay
    /\ max_retry_delay = default_max_retry_delay
    /\ batch = [r \in Requests |-> NoBatch]
    /\ cache_stats = InitialCacheStats
    /\ lookups = 0
    /\ last = Event("init", "-", NoException, 0, "none")

OperationNext ==
    \/ Tick
    \/ \E r \in Requests : CallOperation(r)
    \/ \E r \in Requests : \E outcome \in UpstreamOutcomes :
          UpstreamResponse(r, outcome)
    \/ ClearCache

OperationSpec == OperationInit /\ [][OperationNext]_vars

\* the cache of a client configured with one of CacheSizes, empty or one
\* entry short of full
CacheInit ==
    /\ max_cache_size \in CacheSizes
    /\ cache \in {<<>>, Fillers(max_cache_size - 1)}
    /\ call = [r \in Requests |-> NoCall]
    /\ operation = "none"
    /\ now = 0
    /\ credentials = TRUE
    /\ cb = InitialBreaker
    /\ auth_token = NoToken
    /\ token_expires_at = NoExpiry
    /\ pc = [r \in Requests |-> "idle"]
    /\ attempt = [r \in Requests |-> 0]
    /\ transport_calls = [r \in Requests |-> 0]
    /\ timeouts = [r \in Requests |-> 0]
    /\ streak = 0
    /\ half_open_admitted = 0
    /\ retry_delay = default_retry_delay
    /\ max_retry_delay = default_max_retry_delay
    /\ batch = [r \in Requests |-> NoBatch]
    /\ cache_stats = InitialCacheStats
    /\ lookups = 0
    /\ last = Event("init", "-", NoException, 0, "none")

CacheNext ==
    \/ Tick
    \/ \E key \in CacheKeys : GetCached(key)
    \/ \E key \in CacheKeys : \E value \in CacheValues : \E ttl \in TTLValues :
          SetCache(key, value, ttl)
    \/ \E max_size \in CacheSizes : ConfigureCache(max_size)
    \/ ClearCache
    \/ Close

CacheSpec == CacheInit /\ [][CacheNext]_vars

\* the clock of the token specification counts seconds: the client is
\* constructed at TokenEpoch and is used at these offsets from it
Instants == <<0, 60, 3500, 3540, 3541>>

\* expires_in of a token response in seconds; NoExpiry: the field is absent
TimedExpiresIn == {NoExpiry, 0, 60, 3600}

\* BearerToken bodies the token endpoint answers with
TimedTokenOutcomes ==
    [ok : {TRUE}, token : {"tok", "tok2"}, expires_in : TimedExpiresIn]

\* the registry accepts the request or challenges it
ChallengedOutcomes ==
    [type : {"response"}, status : {200}, challenge : {"-"}]
      \cup [type : {"response"}, status : {401}, challenge : {"bearer"}]

\* how _is_token_expired finds the token at time t
TokenCheck(token, expires_at, t) ==
    IF ~TruthyToken(token) THEN "absent"
    ELSE IF is_token_expired(token, expires_at, t) THEN "expired"
    ELSE "valid"

\* time passes to a later instant
AdvanceClock ==
    /\ \E i \in 1..Len(Instants) :
          /\ TokenEpoch + Instants[i] > now
          /\ now' = TokenEpoch + Instants[i]
    /\ last' = Event("tick", "-", NoException, 0, "none")
    /\ UNCHANGED <<credentials, cb, auth_token, token_expires_at, pc, attempt,
                   transport_calls, timeouts, streak, half_open_admitted>>
    /\ UNCHANGED cachevars
    /\ UNCHANGED retryvars
    /\ UNCHANGED servicevars

\* a public operation that finds nothing in the cache: _ensure_authenticated,
\* then _make_request up to its first await
AuthenticatedRequest(r) ==
    LET ensured == ensure_authenticated(auth_token, token_expires_at, now) IN
    /\ auth_token' = ensured.token
    /\ token_expires_at' = ensured.expires_at
    /\ RequestWithToken(r, ensured.token,
                        TokenCheck(auth_token, token_expires_at, now))

\* get_health_status: the breaker information, then the token's state
GetHealthStatus ==
    LET b2 == get_circuit_breaker_state(cb, now) IN
    /\ cb' = b2
    /\ half_open_admitted' = AdmittedAfter(cb, b2, FALSE)
    /\ last' = WithTokenCheck(Event("health", b2.state, NoException, 0, "none"),
                              TokenCheck(auth_token, token_expires_at, now))
    /\ UNCHANGED <<now, credentials, auth_token, token_expires_at, pc, attempt,
                   transport_calls, timeouts, streak>>
    /\ UNCHANGED cachevars
    /\ UNCHANGED retryvars
    /\ UNCHANGED servicevars

TokenInit ==
    /\ cache = <<>>
    /\ max_cache_size = default_max_cache_size
    /\ call = [r \in Requests |-> NoCall]
    /\ operation = "none"
    /\ now = TokenEpoch
    /\ credentials = TRUE
    /\ cb = InitialBreaker
    /\ auth_token = NoToken
    /\ token_expires_at = NoExpiry
    /\ pc = [r \in Requests |-> "idle"]
    /\ attempt = [r \in Requests |-> 0]
    /\ transport_calls = [r \in Requests |-> 0]
    /\ timeouts = [r \in Requests |-> 0]
    /\ streak = 0
    /\ half_open_admitted = 0
    /\ retry_delay = default_retry_delay
    /\ max_retry_delay = default_max_retry_delay
    /\ batch = [r \in Requests |-> NoBatch]
    /\ cache_stats = InitialCacheStats
    /\ lookups = 0
    /\ last = Event("init", "-", NoException, 0, "none")

TokenNext ==
    \/ AdvanceClock
    \/ \E r \in Requests : AuthenticatedRequest(r)
    \/ \E r \in Requests : \E outcome \in ChallengedOutcomes :
          TransportResponse(r, outcome)
    \/ \E r \in Requests : \E t \in TimedTokenOutcomes : TokenResponse(r, t)
    \/ GetHealthStatus
    \/ Close

TokenSpec == TokenInit /\ [][TokenNext]_vars

\* status codes of error responses
ErrorStatusCodes ==
    {400, 401, 403, 404, 405, 408, 409, 416, 418, 429, 500, 501, 502, 503, 504}

\* Retry-After headers: absent, empty, seconds, an HTTP date
RetryAfterHeaders ==
    {NoRetryAfter, "", "10", "120", "Wed, 21 Oct 2015 07:28:00 GMT"}

\* error responses of the registry
ErrorResponses ==
    [status : ErrorStatusCodes, envelope : Envelopes,
     retry_after : RetryAfterHeaders]

\* the exceptions the client raises: from a response, or constructed in
\* _make_request, _handle_auth_challenge and _validate_manifest_data; and
\* None, the default of the exception argument of _get_retry_delay
RaisedErrors ==
    {raise_for_response(response) : response \in ErrorResponses}
      \cup {Plain(RegistryTimeoutError(408)),
            Plain(RegistryConnectionError(NoStatus)),
            Plain(RegistryException(NoStatus)),
            Plain(RegistryAuthError(NoStatus)),
            Plain(RegistryValidationError(422)),
            Plain(RegistryRateLimitError(429)),
            Detailed(RegistryRateLimitError(429), NoCode, NoMessage, "0"),
            Plain(NoException)}

\* the exceptions that reach _get_retry_delay: those of responses without a
\* parsed body, and the constructed ones
DelayErrors ==
    {e \in RaisedErrors : e.error_code = NoCode /\ e.status \notin {405, 409, 416, 418, 501}}

\* values of random.random(), in thousandths
RandomValues == {0, 999}

\* delays given to configure_retry_policy, in milliseconds
BaseDelays == {0, 1000, 3000}
MaxDelays == {2000, 60000}

\* the event of a call of a function of the retry policy or of the error
\* mapping: besides the fields of every event, the response or the error it
\* was given, the attempt index, the random number, and the error, the
\* verdict or the delay in milliseconds it gave back
PolicyEvent(op, response, error, att, random, retriable, delay) ==
    [op |-> op, ret |-> "-", exc |-> NoException, calls |-> 0,
     recorded |-> "none", timeouts |-> 0, before |-> cb,
     response |-> response, error |-> error, attempt |-> att,
     random |-> random, retriable |-> retriable, delay |-> delay]

NoResponse == [status |-> NoStatus, envelope |-> "-", retry_after |-> NoRetryAfter]

\* configure_retry_policy with the default max_retries and status codes
ConfigureRetryPolicy(base_delay, max_delay) ==
    /\ retry_delay' = base_delay
    /\ max_retry_delay' = max_delay
    /\ last' = PolicyEvent("configure_retry_policy", NoResponse,
                           Plain(NoException), 0, 0, FALSE, 0)
    /\ UNCHANGED <<now, credentials, cb, auth_token, token_expires_at, pc,
                   attempt, transport_calls, timeouts, streak,
                   half_open_admitted>>
    /\ UNCHANGED cachevars
    /\ UNCHANGED servicevars

\* _handle_error_response on a response with status >= 400
HandleErrorResponse(response) ==
    /\ last' = PolicyEvent("handle_error_response", response,
                           raise_for_response(response), 0, 0, FALSE, 0)
    /\ UNCHANGED <<now, cachevars, requestvars, servicevars>>

\* _is_retriable_error
IsRetriableError(e) ==
    /\ last' = PolicyEvent("is_retriable_error", NoResponse, e, 0, 0,
                           is_retriable_error(e), 0)
    /\ UNCHANGED <<now, cachevars, requestvars, servicevars>>

\* _get_retry_delay
GetRetryDelay(att, e, random) ==
    /\ last' = PolicyEvent("get_retry_delay", NoResponse, e, att, random, FALSE,
                           get_retry_delay(retry_delay, max_retry_delay, att,
                                           e, random))
    /\ UNCHANGED <<now, cachevars, requestvars, servicevars>>

PolicyNext ==
    \/ \E base_delay \in BaseDelays : \E max_delay \in MaxDelays :
          ConfigureRetryPolicy(base_delay, max_delay)
    \/ \E response \in ErrorResponses : HandleErrorResponse(response)
    \/ \E e \in RaisedErrors : IsRetriableError(e)
    \/ \E att \in 0..MaxAttemptIndex : \E e \in DelayErrors :
          \E random \in RandomValues : GetRetryDelay(att, e, random)

\* a client constructed without credentials
PolicyInit == Init /\ ~credentials

PolicySpec == PolicyInit /\ [][PolicyNext]_vars

(* ------------------------- catalog pagination ------------------------- *)
\* Link headers of a catalog response: one with rel="next", one without
NextLink == "</v2/_catalog?n=2&last=repo2>; rel=\"next\""
PrevLink == "</v2/_catalog?n=2>; rel=\"prev\""

\* _parse_link_header: the URL of the rel="next" link, None without one
parse_link_header(link_header) ==
    IF link_header = NextLink THEN "/v2/_catalog?n=2&last=repo2" ELSE None

\* one successful catalog response: catalog.repositories and the Link
\* header, "" when the response has none
Page(names, link) == [names |-> names, link |-> link]

CatalogPages ==
    {Page(<<"repo1", "repo2">>, NextLink), Page(<<"repo3", "repo4">>, ""),
     Page(<<"repo3", "repo4">>, NextLink), Page(<<>>, PrevLink)}

\* what an awaited _make_request of list_repositories produces: a page, a
\* body RepositoryCatalog rejects, or an exception
CatalogOutcomes ==
    [type : {"page"}, page : CatalogPages, exc : {NoException}]
      \cup [type : {"invalid"}, page : {Page(<<>>, "")}, exc : {NoException}]
      \cup [type : {"raise"}, page : {Page(<<>>, "")},
            exc : {RegistryServerError(500)}]

\* cache_key and cache_ttl of list_repositories(None, None, fetch_all), the
\* ttl in units of 30 s
CatalogKey(fetch_all) ==
    IF fetch_all THEN "repositories:None:None:True"
    ELSE "repositories:None:None:False"
CatalogTTL(fetch_all) == IF fetch_all THEN 2 ELSE 1

\* variant: the loop follows a next link whether or not fetch_all is set
follows_next_page_always(fetch_all, next_url) == next_url # None

\* the loop of list_repositories goes on to another page
follows_next_page(fetch_all, next_url) == fetch_all /\ next_url # None

\* all_repositories once the pages have been consumed
RECURSIVE all_repositories(_)
all_repositories(pages) ==
    IF Len(pages) = 0 THEN <<>>
    ELSE pages[1].names \o all_repositories(Tail(pages))

\* the tuple list_repositories returns after the pages
CatalogResult(pages) ==
    [names |-> all_repositories(pages),
     has_next |-> parse_link_header(pages[Len(pages)].link) # None,
     next_url |-> parse_link_header(pages[Len(pages)].link)]

NoResult == [names |-> <<>>, has_next |-> FALSE, next_url |-> None]

\* the event of a step of list_repositories: besides the fields of every
\* event, fetch_all, whether the step began the call, whether the call was
\* answered from the cache, the pages it has consumed, the tuple returned
\* and its _make_request calls so far
CatalogEvent(op, fetch_all, started, hit, pages, result, upstream, e) ==
    [op |-> op, ret |-> "-", exc |-> e, calls |-> 0, recorded |-> "none",
     timeouts |-> 0, before |-> cb,
     fetch_all |-> fetch_all, started |-> started, hit |-> hit,
     pages |-> pages, result |-> result, upstream |-> upstream]

\* list_repositories up to its first await or, on a cache hit, its return
ListRepositories(r, fetch_all) ==
    LET k == CatalogKey(fetch_all)
        hit == HasKey(cache, k) /\ now < Lookup(cache, k).expires_at
    IN /\ call[r] = NoCall
       /\ cache' = get_cached_cache(cache, k, now)
       /\ IF hit
          THEN /\ last' = CatalogEvent("catalog_return", fetch_all, TRUE, TRUE,
                                       <<>>, Lookup(cache, k).value, 0,
                                       NoException)
               /\ UNCHANGED call
          ELSE /\ call' = [call EXCEPT ![r] =
                             [op |-> "list_repositories", fetch_all |-> fetch_all,
                              pages |-> <<>>, upstream |-> 1]]
               /\ last' = CatalogEvent("catalog_await", fetch_all, TRUE, FALSE,
                                       <<>>, NoResult, 1, NoException)
       /\ UNCHANGED <<now, max_cache_size, operation>>
       /\ UNCHANGED requestvars
       /\ UNCHANGED servicevars

\* the awaited _make_request of list_repositories ends: the rest of the
\* loop body, up to the next await, the return or the raise; the registry
\* serves at most MaxPages pages
CatalogResponse(r, outcome) ==
    LET fetch_all == call[r].fetch_all
        pages == Append(call[r].pages, outcome.page)
        next_url == parse_link_header(outcome.page.link)
    IN /\ call[r] # NoCall
       /\ IF outcome.type = "raise"
          THEN /\ call' = [call EXCEPT ![r] = NoCall]
               /\ last' = CatalogEvent("catalog_raise", fetch_all, FALSE, FALSE,
                                       call[r].pages, NoResult,
                                       call[r].upstream, outcome.exc)
               /\ UNCHANGED cache
          ELSE IF outcome.type = "invalid"
          THEN /\ call' = [call EXCEPT ![r] = NoCall]
               /\ last' = CatalogEvent("catalog_raise", fetch_all, FALSE, FALSE,
                                       call[r].pages, NoResult,
                                       call[r].upstream,
                                       RegistryException(NoStatus))
               /\ UNCHANGED cache
          ELSE /\ Len(pages) < MaxPages \/ next_url = None
               /\ IF follows_next_page(fetch_all, next_url)
                  THEN /\ call' = [call EXCEPT ![r].pages = pages,
                                               ![r].upstream = @ + 1]
                       /\ last' = CatalogEvent("catalog_await", fetch_all,
                                               FALSE, FALSE, pages, NoResult,
                                               call[r].upstream + 1,
                                               NoException)
                       /\ UNCHANGED cache
                  ELSE /\ call' = [call EXCEPT ![r] = NoCall]
                       /\ cache' = set_cache(cache, max_cache_size,
                                             CatalogKey(fetch_all),
                                             CatalogResult(pages),
                                             CatalogTTL(fetch_all), now)
                       /\ last' = CatalogEvent("catalog_return", fetch_all,
                                               FALSE, FALSE, pages,
                                               CatalogResult(pages),
                                               call[r].upstream, NoException)
       /\ UNCHANGED <<now, max_cache_size, operation>>
       /\ UNCHANGED requestvars
       /\ UNCHANGED servicevars

\* a client whose callers list the catalog
CatalogInit == OperationInit /\ operation = "list_repositories"

CatalogNext ==
    \/ Tick
    \/ \E r \in Requests : \E fetch_all \in BOOLEAN :
          ListRepositories(r, fetch_all)
    \/ \E r \in Requests : \E outcome \in CatalogOutcomes :
          CatalogResponse(r, outcome)
    \/ ClearCache

CatalogSpec == CatalogInit /\ [][CatalogNext]_vars

(* --------------------- following the chain of pages ------------------- *)
\* the catalog of the registry holds at most MaxCatalogSize repositories
\* and callers ask for pages of at most MaxLimit
MaxCatalogSize == 3
MaxLimit == 1

\* a parameter that is not given
NoParam == "-"

\* the name of the i-th repository of the catalog, and back
RepositoryName(i) == "repo" \o ToString(i)
PositionOf(name) ==
    IF name = NoParam THEN 0
    ELSE CHOOSE i \in 1..MaxCatalogSize : RepositoryName(i) = name

\* the values a request may carry as n, as they go over the wire, and back
Limits == {ToString(i) : i \in 1..MaxLimit}
NumberOf(n) == CHOOSE i \in 1..MaxLimit : ToString(i) = n

\* a URL as urlparse sees it: the path and the query as key-value pairs
CatalogPath == "/v2/_catalog"
Url(path, query) == [path |-> path, query |-> query]

\* one link-value of a Link header
LinkValue(url, rel) == [url |-> url, rel |-> rel]

\* how a registry writes the Link header of a page that has a successor:
\* n before last, last before n, or behind a link to the previous page
LinkStyles == {"n_last", "last_n", "prev_next"}

LinkHeader(style, n, last_name) ==
    LET next == Url(CatalogPath,
                    IF style = "last_n"
                    THEN << <<"last", last_name>>, <<"n", n>> >>
                    ELSE << <<"n", n>>, <<"last", last_name>> >>)
    IN IF style = "prev_next"
       THEN << LinkValue(Url(CatalogPath, << <<"n", n>> >>), "prev"),
               LinkValue(next, "next") >>
       ELSE << LinkValue(next, "next") >>

\* parse_qs(query)[key][0], NoParam when the key is not in the query
ValueOf(query, key) ==
    LET values == SelectSeq(query, LAMBDA pair : pair[1] = key)
    IN IF values = <<>> THEN NoParam ELSE values[1][2]

\* _parse_link_header on a header given link-value by link-value: the URL
\* of the first one with rel="next", as a sequence that is empty for None
parse_link_values(link_header) ==
    LET nexts == SelectSeq(link_header, LAMBDA link : link.rel = "next")
    IN IF nexts = <<>> THEN <<>> ELSE <<nexts[1].url>>

\* variant: the parameters of the next request keep n only
next_params_limit_only(next_url) ==
    [n |-> ValueOf(next_url.query, "n"), last |-> NoParam]

\* the params of the next request, taken from the next URL
next_params(next_url) ==
    [n |-> ValueOf(next_url.query, "n"),
     last |-> ValueOf(next_url.query, "last")]

\* the page a URL names and the page a request for /v2/_catalog with
\* params asks for: path, n, last, and whatever else the query holds
NamedPage(url) ==
    [path |-> url.path, n |-> ValueOf(url.query, "n"),
     last |-> ValueOf(url.query, "last"),
     other |-> {url.query[i] : i \in 1..Len(url.query)}
                 \ ({"n", "last"} \X (Limits \cup
                        {RepositoryName(i) : i \in 1..MaxCatalogSize}))]
TargetPage(params) ==
    [path |-> CatalogPath, n |-> params.n, last |-> params.last, other |-> {}]
NoPage == [path |-> NoParam, n |-> NoParam, last |-> NoParam, other |-> {}]

\* GET /v2/_catalog?n=<n>&last=<last> of a registry that holds size
\* repositories: the n names after last, all of them without n, and a
\* next link when names remain
PageOf(size, style, params) ==
    LET start == PositionOf(params.last)
        count == IF params.n = NoParam THEN size - start
                 ELSE Min(NumberOf(params.n), size - start)
    IN Page([i \in 1..count |-> RepositoryName(start + i)],
            IF start + count < size
            THEN LinkHeader(style, params.n, RepositoryName(start + count))
            ELSE <<>>)

\* the chain of pages the registry serves from the page params asks for,
\* each next link leading to the following page
RECURSIVE RegistryChain(_, _, _)
RegistryChain(size, style, params) ==
    LET page == PageOf(size, style, params)
        nexts == SelectSeq(page.link, LAMBDA link : link.rel = "next")
    IN IF nexts = <<>> THEN <<page>>
       ELSE <<page>> \o RegistryChain(size, style,
                           [n |-> NamedPage(nexts[1].url).n,
                            last |-> NamedPage(nexts[1].url).last])

\* cache_key of list_repositories(limit, None, True)
ChainKey(limit) ==
    "repositories:" \o (IF limit = NoParam THEN "None" ELSE limit)
       \o ":None:True"

\* the event of a step of list_repositories(fetch_all=True): besides the
\* fields of every event, the limit and the registry of the call, whether
\* the step began the call, whether it was answered from the cache, the
\* pages consumed, the tuple returned, the _make_request calls so far,
\* the page the request just issued asks for and the page the next link
\* of the response before it names
ChainEvent(op, limit, registry, started, hit, pages, result, upstream, target,
           named) ==
    [op |-> op, ret |-> "-", exc |-> NoException, calls |-> 0,
     recorded |-> "none", timeouts |-> 0, before |-> cb,
     limit |-> limit, registry |-> registry, started |-> started, hit |-> hit,
     pages |-> pages, result |-> result, upstream |-> upstream,
     target |-> target, named |-> named]

\* the registry is the one the calls in flight talk to, and its catalog is
\* the one the cached results were listed from
SameRegistry(registry) ==
    /\ \A r \in Requests : call[r] # NoCall => call[r].registry = registry
    /\ \A i \in 1..Len(cache) : Len(cache[i].value.names) = registry.size

\* list_repositories(limit, None, True) up to its first await or, on a
\* cache hit, its return; the registry holds size repositories
ListAllRepositories(r, limit, size, style) ==
    LET k == ChainKey(limit)
        hit == HasKey(cache, k) /\ now < Lookup(cache, k).expires_at
        registry == [size |-> size, style |-> style]
        params == [n |-> limit, last |-> NoParam]
    IN /\ call[r] = NoCall
       /\ SameRegistry(registry)
       /\ cache' = get_cached_cache(cache, k, now)
       /\ IF hit
          THEN /\ last' = ChainEvent("chain_return", limit, registry, TRUE, TRUE,
                                     <<>>, Lookup(cache, k).value, 0, NoPage,
                                     NoPage)
               /\ UNCHANGED call
          ELSE /\ call' = [call EXCEPT ![r] =
                             [op |-> "list_repositories", limit |-> limit,
                              registry |-> registry, params |-> params,
                              pages |-> <<>>, upstream |-> 1]]
               /\ last' = ChainEvent("chain_await", limit, registry, TRUE, FALSE,
                                     <<>>, NoResult, 1, TargetPage(params),
                                     NoPage)
       /\ UNCHANGED <<now, max_cache_size, operation>>
       /\ UNCHANGED requestvars
       /\ UNCHANGED servicevars

\* the awaited _make_request of the loop returns the page the registry
\* serves for params: the rest of the loop body, up to the next await or
\* the return; no call issues more than MaxCatalogSize + 1 requests
ChainResponse(r) ==
    LET c == call[r]
        page == PageOf(c.registry.size, c.registry.style, c.params)
        pages == Append(c.pages, page)
        next_url == parse_link_values(page.link)
    IN /\ call[r] # NoCall
       /\ c.upstream <= MaxCatalogSize + 1
       /\ IF next_url = <<>>
          THEN LET result == [names |-> all_repositories(pages),
                              has_next |-> FALSE, next_url |-> None]
               IN /\ call' = [call EXCEPT ![r] = NoCall]
                  /\ cache' = set_cache(cache, max_cache_size,
                                        ChainKey(c.limit), result,
                                        CatalogTTL(TRUE), now)
                  /\ last' = ChainEvent("chain_return", c.limit, c.registry,
                                        FALSE, FALSE, pages, result, c.upstream,
                                        NoPage, NoPage)
          ELSE /\ call' = [call EXCEPT ![r].pages = pages,
                                       ![r].params = next_params(next_url[1]),
                                       ![r].upstream = @ + 1]
               /\ last' = ChainEvent("chain_await", c.limit, c.registry, FALSE,
                                     FALSE, pages, NoResult, c.upstream + 1,
                                     TargetPage(next_params(next_url[1])),
                                     NamedPage(next_url[1]))
               /\ UNCHANGED cache
       /\ UNCHANGED <<now, max_cache_size, operation>>
       /\ UNCHANGED requestvars
       /\ UNCHANGED servicevars

\* a client whose callers list the whole catalog of a registry whose
\* requests all succeed
ChainInit == OperationInit /\ operation = "list_repositories"

ChainNext ==
    \/ \E r \in Requests : \E limit \in Limits \cup {NoParam} :
          \E size \in 0..MaxCatalogSize : \E style \in LinkStyles :
             ListAllRepositories(r, limit, size, style)
    \/ \E r \in Requests : ChainResponse(r)

\* the event loop resumes a call whose awaited request has completed
ChainSpec ==
    /\ ChainInit
    /\ [][ChainNext]_vars
    /\ \A r \in Requests : WF_vars(ChainResponse(r))

(* ------------------------- manifest validation ----------------------- *)
\* required_fields, config_required and layer_required
ManifestRequired == {"schemaVersion", "mediaType", "config", "layers"}
ConfigRequired == {"mediaType", "size", "digest"}
LayerRequired == {"mediaType", "size", "digest"}

\* a manifest document as far as validation reads it: the keys at top
\* level, the keys of config, the keys of each layer, and the paths whose
\* value is null
Manifest(top, config, layers, nulls) ==
    [top |-> top, config |-> config, layers |-> layers, nulls |-> nulls]

CompleteManifest ==
    Manifest(ManifestRequired, ConfigRequired, <<LayerRequired, LayerRequired>>,
             {})

\* the complete manifest, one without layers, one with a key more, one with
\* a null size, and the complete one with one required key taken away: at
\* top level, in config, in the second layer
ManifestDocuments ==
    {CompleteManifest,
     Manifest(ManifestRequired, ConfigRequired, <<>>, {}),
     Manifest(ManifestRequired \cup {"annotations"}, ConfigRequired,
              <<LayerRequired>>, {}),
     Manifest(ManifestRequired, ConfigRequired, <<LayerRequired>>,
              {"config.size"})}
      \cup {Manifest(ManifestRequired \ {f},
                     IF f = "config" THEN {} ELSE ConfigRequired,
                     IF f = "layers" THEN <<>>
                     ELSE <<LayerRequired, LayerRequired>>, {}) :
               f \in ManifestRequired}
      \cup {Manifest(ManifestRequired, ConfigRequired \ {f},
                     <<LayerRequired, LayerRequired>>, {}) :
               f \in ConfigRequired}
      \cup {Manifest(ManifestRequired, ConfigRequired,
                     <<LayerRequired, LayerRequired \ {f}>>, {}) :
               f \in LayerRequired}

\* variant: only the keys at top level are looked at
validate_manifest_data_top_level(manifest_data) ==
    \A f \in ManifestRequired : f \in manifest_data.top

\* _validate_manifest_data
validate_manifest_data(manifest_data) ==
    /\ \A f \in ManifestRequired : f \in manifest_data.top
    /\ \A f \in ConfigRequired : f \in manifest_data.config
    /\ \A i \in 1..Len(manifest_data.layers) :
          \A f \in LayerRequired : f \in manifest_data.layers[i]

\* ManifestV2(**manifest_data) accepts the document
ManifestV2(manifest_data) ==
    /\ \A f \in ManifestRequired : f \in manifest_data.top
    /\ \A f \in ConfigRequired : f \in manifest_data.config
    /\ \A i \in 1..Len(manifest_data.layers) :
          \A f \in LayerRequired : f \in manifest_data.layers[i]
    /\ manifest_data.nulls = {}

\* what the awaited _make_request of get_manifest produces
ManifestOutcomes ==
    [type : {"response"}, manifest_data : ManifestDocuments, exc : {NoException}]
      \cup [type : {"raise"}, manifest_data : {CompleteManifest},
            exc : UpstreamErrors]

\* the event of a step of get_manifest: besides the fields of every event,
\* whether the call was answered from the cache, the document received,
\* the value returned and the entries the cache held before the step
ManifestEvent(op, hit, manifest_data, result, e) ==
    [op |-> op, ret |-> "-", exc |-> e, calls |-> 0, recorded |-> "none",
     timeouts |-> 0, before |-> cb,
     hit |-> hit, manifest_data |-> manifest_data, result |-> result,
     size_before |-> Len(cache)]

\* get_manifest(r, t) up to its await or, on a cache hit, its return
GetManifest(r) ==
    LET k == CacheKey("get_manifest")
        hit == HasKey(cache, k) /\ now < Lookup(cache, k).expires_at
    IN /\ call[r] = NoCall
       /\ cache' = get_cached_cache(cache, k, now)
       /\ IF hit
          THEN /\ last' = ManifestEvent("manifest_return", TRUE,
                                        Lookup(cache, k).value,
                                        Lookup(cache, k).value, NoException)
               /\ UNCHANGED call
          ELSE /\ call' = [call EXCEPT ![r] = [op |-> "get_manifest",
                                               upstream |-> 1]]
               /\ last' = ManifestEvent("manifest_await", FALSE,
                                        CompleteManifest, CompleteManifest,
                                        NoException)
       /\ UNCHANGED <<now, max_cache_size, operation>>
       /\ UNCHANGED requestvars
       /\ UNCHANGED servicevars

\* the awaited _make_request of get_manifest ends: validation, caching and
\* return, or the raise
ManifestResponse(r, outcome) ==
    LET manifest_data == outcome.manifest_data IN
    /\ call[r] # NoCall
    /\ call' = [call EXCEPT ![r] = NoCall]
    /\ IF outcome.type = "raise"
       THEN /\ last' = ManifestEvent("manifest_raise", FALSE, manifest_data,
                                     manifest_data,
                                     OperationError("get_manifest", outcome.exc))
            /\ UNCHANGED cache
       ELSE IF ~validate_manifest_data(manifest_data)
       THEN /\ last' = ManifestEvent("manifest_raise", FALSE, manifest_data,
                                     manifest_data, RegistryValidationError(422))
            /\ UNCHANGED cache
       ELSE IF ~ManifestV2(manifest_data)
       THEN /\ last' = ManifestEvent("manifest_raise", FALSE, manifest_data,
                                     manifest_data, RegistryException(NoStatus))
            /\ UNCHANGED cache
       ELSE /\ cache' = set_cache(cache, max_cache_size,
                                  CacheKey("get_manifest"), manifest_data,
                                  OperationTTL("get_manifest"), now)
            /\ last' = ManifestEvent("manifest_return", FALSE, manifest_data,
                                     manifest_data, NoException)
    /\ UNCHANGED <<now, max_cache_size, operation>>
    /\ UNCHANGED requestvars
    /\ UNCHANGED servicevars

\* a client whose callers ask for the manifest of r:t
ManifestInit == OperationInit /\ operation = "get_manifest"

ManifestNext ==
    \/ Tick
    \/ \E r \in Requests : GetManifest(r)
    \/ \E r \in Requests : \E outcome \in ManifestOutcomes :
          ManifestResponse(r, outcome)
    \/ ClearCache

ManifestSpec == ManifestInit /\ [][ManifestNext]_vars

(* ------------------------------ lifecycle ----------------------------- *)
\* a client with credentials that serves requests and stores entries under
\* one key until it is closed
LifecycleKey == "a"

\* the token endpoint fails, or answers with a token good for an hour
LifecycleTokenOutcomes ==
    [ok : {FALSE}, token : {""}, expires_in : {NoExpiry}]
      \cup [ok : {TRUE}, token : {"tok"}, expires_in : {3600}]

LifecycleInit == Init /\ credentials

LifecycleNext ==
    \/ Tick
    \/ \E r \in Requests : StartRequest(r)
    \/ \E r \in Requests : \E outcome \in TransportOutcomes :
          TransportResponse(r, outcome)
    \/ \E r \in Requests : \E t \in LifecycleTokenOutcomes :
          TokenResponse(r, t)
    \/ \E r \in Requests : WakeUp(r)
    \/ SetCache(LifecycleKey, "v1", NoTTL)
    \/ Close

LifecycleSpec == LifecycleInit /\ [][LifecycleNext]_vars

(* ---------------------- bulk metadata collection ---------------------- *)
\* variant: entering the semaphore never waits
semaphore_never_locked(value) == FALSE

\* 'async with semaphore' has to wait: the semaphore has no permit left
semaphore_locked(value) == value <= 0

\* how _get_repository_metadata ends inside fetch_single_metadata: with
\* metadata (fetched, or the fallback after a RegistryException), or with an
\* exception that fetch_single_metadata turns into an error entry
FetchOutcomes == {"metadata", "exception"}

\* the event of a step of batch_get_metadata: besides the fields of every
\* event, the caller and the number of entries of the result
BatchEvent(op, r, size) ==
    [op |-> op, ret |-> "-", exc |-> NoException, calls |-> 0,
     recorded |-> "none", timeouts |-> 0, before |-> cb,
     caller |-> r, size |-> size]

\* batch_get_metadata up to its gather, n of the requested repositories
\* being uncached; with none it returns at once
BatchGetMetadata(r, n) ==
    /\ batch[r].pc = "idle"
    /\ IF n = 0
       THEN /\ last' = BatchEvent("batch_return", r, 0)
            /\ UNCHANGED batch
       ELSE /\ batch' = [batch EXCEPT ![r] =
                           [pc |-> "gather", semaphore |-> concurrent_limit,
                            pending |-> n, fetching |-> 0, fetched |-> 0,
                            failed |-> 0]]
            /\ last' = BatchEvent("batch_gather", r, 0)
    /\ UNCHANGED <<now, cache_stats, lookups>>
    /\ UNCHANGED <<cachevars, requestvars>>

\* a task of the gather enters 'async with semaphore' and awaits
\* _get_repository_metadata
EnterFetch(r) ==
    /\ batch[r].pc = "gather"
    /\ batch[r].pending > 0
    /\ ~semaphore_locked(batch[r].semaphore)
    /\ batch' = [batch EXCEPT ![r].semaphore = @ - 1, ![r].pending = @ - 1,
                              ![r].fetching = @ + 1]
    /\ last' = BatchEvent("fetch_enter", r, 0)
    /\ UNCHANGED <<now, cache_stats, lookups>>
    /\ UNCHANGED <<cachevars, requestvars>>

\* the awaited _get_repository_metadata of a task ends and the task leaves
\* 'async with semaphore'
LeaveFetch(r, outcome) ==
    /\ batch[r].pc = "gather"
    /\ batch[r].fetching > 0
    /\ batch' = [batch EXCEPT
                   ![r].semaphore = @ + 1, ![r].fetching = @ - 1,
                   ![r].fetched = IF outcome = "metadata" THEN @ + 1 ELSE @,
                   ![r].failed = IF outcome = "metadata" THEN @ ELSE @ + 1]
    /\ last' = BatchEvent("fetch_leave", r, 0)
    /\ UNCHANGED <<now, cache_stats, lookups>>
    /\ UNCHANGED <<cachevars, requestvars>>

\* every task of the gather is done: the results are collected and returned
BatchReturn(r) ==
    /\ batch[r].pc = "gather"
    /\ batch[r].pending = 0
    /\ batch[r].fetching = 0
    /\ batch' = [batch EXCEPT ![r] = NoBatch]
    /\ last' = BatchEvent("batch_return", r,
                          batch[r].fetched + batch[r].failed)
    /\ UNCHANGED <<now, cache_stats, lookups>>
    /\ UNCHANGED <<cachevars, requestvars>>

\* a repository service whose callers collect metadata in bulk, each call
\* with a semaphore of its own
BatchNext ==
    \/ \E r \in Requests : \E n \in 0..MaxRepositories : BatchGetMetadata(r, n)
    \/ \E r \in Requests : EnterFetch(r)
    \/ \E r \in Requests : \E outcome \in FetchOutcomes : LeaveFetch(r, outcome)
    \/ \E r \in Requests : BatchReturn(r)

BatchInit == Init /\ credentials

BatchSpec == BatchInit /\ [][BatchNext]_vars

(* -------------------------- cache statistics -------------------------- *)
\* variant: a lookup that finds an expired entry counts nothing
get_cached_stats_expired_uncounted(stats, c, key, t) ==
    IF HasKey(c, key)
    THEN IF t < Lookup(c, key).expires_at
         THEN [stats EXCEPT !.hits = @ + 1]
         ELSE stats
    ELSE [stats EXCEPT !.misses = @ + 1]

\* _get_cached: the hits and misses counters it leaves
get_cached_stats(stats, c, key, t) ==
    IF HasKey(c, key) /\ t < Lookup(c, key).expires_at
    THEN [stats EXCEPT !.hits = @ + 1]
    ELSE [stats EXCEPT !.misses = @ + 1]

\* the event of a step of a caller that looks a key up and stores what it
\* fetched on a miss: besides the fields of every event, the caller, the
\* key, and whether the lookup found an entry, expired or not
StatsEvent(op, r, key, ret, present) ==
    [op |-> op, ret |-> ret, exc |-> NoException, calls |-> 0,
     recorded |-> "none", timeouts |-> 0, before |-> cb,
     caller |-> r, key |-> key, present |-> present]

\* a caller's operation calls _get_cached(key); on a miss it goes on to
\* await its request
LookUp(r, key) ==
    LET ret == get_cached_value(cache, key, now) IN
    /\ lookups < MaxLookups
    /\ call[r] = NoCall
    /\ cache' = get_cached_cache(cache, key, now)
    /\ cache_stats' = get_cached_stats(cache_stats, cache, key, now)
    /\ lookups' = lookups + 1
    /\ call' = IF ret # None THEN call
               ELSE [call EXCEPT ![r] = [op |-> "fetch", stack |-> <<key>>,
                                         upstream |-> 1, hits |-> 0,
                                         misses |-> 1]]
    /\ last' = StatsEvent("lookup", r, key, ret, HasKey(cache, key))
    /\ UNCHANGED <<now, max_cache_size, operation, batch>>
    /\ UNCHANGED requestvars

\* the request of a caller that missed is answered and the caller stores
\* the value with _set_cache
StoreFetched(r, value) ==
    /\ call[r] # NoCall
    /\ cache' = set_cache(cache, max_cache_size, call[r].stack[1], value, 1,
                          now)
    /\ call' = [call EXCEPT ![r] = NoCall]
    /\ last' = StatsEvent("store", r, call[r].stack[1], value, FALSE)
    /\ UNCHANGED <<now, max_cache_size, operation>>
    /\ UNCHANGED requestvars
    /\ UNCHANGED servicevars

\* a client whose callers look keys up and store what they fetch
StatsInit == Init /\ credentials

StatsNext ==
    \/ Tick
    \/ \E r \in Requests : \E key \in CacheKeys : LookUp(r, key)
    \/ \E r \in Requests : \E value \in CacheValues : StoreFetched(r, value)

StatsSpec == StatsInit /\ [][StatsNext]_vars

(* ------------------- cached operations over requests ----------------- *)
\* the operations the callers use here: one that returns a pydantic model
\* and the one that returns the JSON document as it came
GuardedOperations == {"list_tags", "get_config_blob"}

\* what one awaited client.request produces here: an answer that needs no
\* token exchange, or a timeout
GuardedOutcomes ==
    {o \in TransportOutcomes :
        \/ o.type = "TimeoutException"
        \/ o.type = "response" /\ o.status \in {200, 404, 503}}

\* JSON documents of a 200 answer
GuardedBodies == {"v1", "{}"}

\* a caller calls the operation: _ensure_authenticated finds no token to
\* clear, _get_cached is consulted, and unless 'if cached_result:' returns
\* the value, _make_request starts with its breaker check
CallGuarded(r) ==
    LET k == CacheKey(operation)
        cached_result == get_cached_value(cache, k, now)
    IN /\ call[r] = NoCall
       /\ pc[r] = "idle"
       /\ cache' = get_cached_cache(cache, k, now)
       /\ IF Truthy(cached_result)
          THEN /\ last' = Event("cached_return", cached_result, NoException,
                                0, "none")
               /\ UNCHANGED <<now, call>>
               /\ UNCHANGED requestvars
               /\ UNCHANGED servicevars
          ELSE /\ BeginRequest(r, auth_token, "-")
               /\ call' = IF pc'[r] = "request"
                          THEN [call EXCEPT ![r] =
                                  [op |-> operation, stack |-> <<>>,
                                   upstream |-> 1, hits |-> 0, misses |-> 0]]
                          ELSE call
               /\ UNCHANGED <<auth_token, token_expires_at>>
       /\ UNCHANGED <<max_cache_size, operation>>

\* the answer to the awaited client.request of a calling operation arrives:
\* the rest of the loop body and, once _make_request has returned or
\* raised, the rest of the operation
GuardedResponse(r, outcome, body) ==
    LET parsed == ParseResponse(operation, body) IN
    /\ call[r] # NoCall
    /\ LoopBody(r, outcome)
    /\ IF last'.op = "return"
       THEN /\ call' = [call EXCEPT ![r] = NoCall]
            /\ cache' = IF parsed.ok
                        THEN set_cache(cache, max_cache_size,
                                       CacheKey(operation), parsed.value,
                                       OperationTTL(operation), now)
                        ELSE cache
       ELSE IF last'.op = "raise"
       THEN /\ call' = [call EXCEPT ![r] = NoCall]
            /\ UNCHANGED cache
       ELSE UNCHANGED <<cache, call>>
    /\ UNCHANGED <<max_cache_size, operation>>

\* a client whose callers use one cached operation over _make_request
GuardedInit == OperationInit /\ operation \in GuardedOperations

GuardedNext ==
    \/ Tick
    \/ \E r \in Requests : CallGuarded(r)
    \/ \E r \in Requests : \E outcome \in GuardedOutcomes :
          \E body \in GuardedBodies : GuardedResponse(r, outcome, body)
    \/ \E r \in Requests : WakeUp(r)

GuardedSpec == GuardedInit /\ [][GuardedNext]_vars

(* ---------------------- recovery of the breaker ----------------------- *)
\* the answer that makes _make_request return
SuccessOutcome == [type |-> "response", status |-> 200, challenge |-> "-"]

\* answers _make_request retries and then records as a failure
FailureOutcomes ==
    {[type |-> "TimeoutException", status |-> NoStatus, challenge |-> "-"],
     [type |-> "response", status |-> 503, challenge |-> "-"]}

\* time passes beyond MaxTime for as long as an Open breaker needs to see
\* its cool-down end
CoolDown ==
    /\ cb.state = "OPEN"
    /\ now >= MaxTime
    /\ now - cb.last_failure_time <= circuit_breaker_timeout
    /\ now' = now + 1
    /\ last' = Event("tick", "-", NoException, 0, "none")
    /\ UNCHANGED <<credentials, cb, auth_token, token_expires_at, pc, attempt,
                   transport_calls, timeouts, streak, half_open_admitted>>
    /\ UNCHANGED cachevars
    /\ UNCHANGED retryvars
    /\ UNCHANGED servicevars

\* time.time() moves on
TimePasses == Tick \/ CoolDown

\* a caller calls _make_request
RequestMade == \E r \in Requests : StartRequest(r)

\* an awaited client.request is answered with a success
RequestSucceeds == \E r \in Requests : TransportResponse(r, SuccessOutcome)

\* an awaited client.request fails; the registry fails before MaxTime only
RequestFails ==
    /\ now < MaxTime
    /\ \E r \in Requests : \E outcome \in FailureOutcomes :
          TransportResponse(r, outcome)

\* asyncio.sleep returns
SleepEnds == \E r \in Requests : WakeUp(r)

RecoveryInit == Init /\ credentials

RecoveryNext ==
    \/ Tick
    \/ CoolDown
    \/ RequestMade
    \/ RequestSucceeds
    \/ RequestFails
    \/ SleepEnds

\* the clock advances, callers keep calling, and the event loop resumes
\* every coroutine whose awaited request or sleep has completed
RecoverySpec ==
    /\ RecoveryInit
    /\ [][RecoveryNext]_vars
    /\ WF_vars(TimePasses)
    /\ WF_vars(RequestMade)
    /\ WF_vars(RequestSucceeds)
    /\ WF_vars(SleepEnds)

TypeOK ==
    /\ now \in 0..MaxTime
    /\ cb.state \in {"CLOSED", "OPEN", "HALF_OPEN"}
    /\ \A r \in Requests : pc[r] \in {"idle", "request", "token", "sleep"}


(* ----------------------------- properties ----------------------------- *)
\* the last step queried the breaker state: _get_circuit_breaker_info, or the
\* _can_make_request of a starting request; cb.state is the value returned
Queried == last.op \in {"query", "start"}

\* the last step ended a request with an exception
Raised == last.op = "raise"

\* the last step ended a request with a response
Returned == last.op = "return"

\* C1: a state query on a Closed breaker returns Open, and records
\* last_failure_time, exactly when at least threshold retriable failures were
\* recorded since the breaker was last Closed with failure_count 0; with
\* fewer it returns Closed.
C1_OpensAtThreshold ==
    (Queried /\ last.before.state = "CLOSED") =>
        /\ (cb.state = "OPEN") <=> (streak >= circuit_breaker_threshold)
        /\ (cb.state = "OPEN") => (cb.last_failure_time = now)
        /\ (streak < circuit_breaker_threshold) => (cb.state = "CLOSED")
        /\ (last.op = "query") => (last.ret = cb.state)

C1_Witness ==
    /\ last.op = "query"
    /\ last.before.state = "CLOSED"
    /\ streak = circuit_breaker_threshold
    /\ last.ret = "OPEN"

\* C2: a request starting while the breaker is Open within the cool-down is
\* rejected with RegistryConnectionError "Circuit breaker is open", issues
\* no transport call and enters neither the retry loop nor a backoff sleep.
C2_OpenRejects ==
    [][(/\ last'.op = "start"
        /\ cb.state = "OPEN"
        /\ now - cb.last_failure_time <= circuit_breaker_timeout)
       => (/\ last'.ret = "Circuit breaker is open"
           /\ last'.exc = RegistryConnectionError(NoStatus)
           /\ last'.calls = 0
           /\ pc' = pc
           /\ attempt' = attempt
           /\ transport_calls' = transport_calls)]_vars

C2_Witness ==
    /\ last.op = "start"
    /\ last.before.state = "OPEN"
    /\ last.ret = "Circuit breaker is open"
    /\ \A r \in Requests : pc[r] = "idle"

\* C3: while the breaker is HalfOpen no more than half_open_max_calls
\* requests are admitted to the transport.
C3_HalfOpenLimit ==
    half_open_admitted <= circuit_breaker_half_open_max_calls

\* C4: a request that ends with a retriable error after its last attempt
\* raises that error and has recorded one retriable failure, which adds one
\* to failure_count when the breaker was Closed.
C4_ExhaustedRecordsFailure ==
    (Raised /\ is_retriable_error(last.exc)) =>
        /\ last.calls = max_retries + 1
        /\ last.recorded = "failure_retriable"
        /\ (last.before.state = "CLOSED") =>
              (cb.failure_count = last.before.failure_count + 1)

\* C5: a state query on an Open breaker returns HalfOpen with
\* half_open_calls reset to 0 when now - last_failure_time > timeout, and
\* Open otherwise.
C5_HalfOpenAfterTimeout ==
    (Queried /\ last.before.state = "OPEN") =>
        IF now - last.before.last_failure_time > circuit_breaker_timeout
        THEN /\ cb.state = "HALF_OPEN"
             /\ cb.half_open_calls = 0
             /\ (last.op = "query") => (last.ret = "HALF_OPEN")
        ELSE /\ cb = last.before
             /\ (last.op = "query") => (last.ret = "OPEN")

C5_Witness ==
    /\ last.op = "query"
    /\ last.before.state = "OPEN"
    /\ now - last.before.last_failure_time > circuit_breaker_timeout
    /\ last.ret = "HALF_OPEN"

\* C6: a success recorded in HalfOpen adds one to half_open_calls; when the
\* count reaches half_open_max_calls the breaker is Closed with
\* failure_count 0, and below that it stays HalfOpen.
C6_SuccessesClose ==
    /\ (Returned /\ last.before.state = "HALF_OPEN") =>
          IF last.before.half_open_calls + 1 = circuit_breaker_half_open_max_calls
          THEN cb.state = "CLOSED" /\ cb.failure_count = 0
          ELSE /\ cb.state = "HALF_OPEN"
               /\ cb.half_open_calls = last.before.half_open_calls + 1
               /\ cb.half_open_calls < circuit_breaker_half_open_max_calls
    /\ (cb.state = "HALF_OPEN") =>
          (cb.half_open_calls < circuit_breaker_half_open_max_calls)

C6_Witness ==
    /\ Returned
    /\ last.before.state = "HALF_OPEN"
    /\ last.before.half_open_calls = circuit_breaker_half_open_max_calls - 1
    /\ last.before.half_open_calls >= 1
    /\ cb.state = "CLOSED"

\* C7: a failure recorded while HalfOpen, retriable or not, leaves the
\* breaker Open with failure_count = threshold and half_open_calls = 0.
C7_HalfOpenFailureReopens ==
    (Raised /\ last.recorded # "none" /\ last.before.state = "HALF_OPEN") =>
        /\ cb.state = "OPEN"
        /\ cb.failure_count = circuit_breaker_threshold
        /\ cb.half_open_calls = 0

C7_Witness ==
    /\ Raised
    /\ last.recorded = "failure_not_retriable"
    /\ last.before.state = "HALF_OPEN"
    /\ last.before.half_open_calls >= 1
    /\ cb.state = "OPEN"

\* C8: a request that succeeds while the breaker is Closed leaves
\* failure_count at 0, whatever it was and whatever its earlier attempts did.
C8_SuccessResets ==
    (Returned /\ last.before.state = "CLOSED") =>
        (cb.state = "CLOSED" /\ cb.failure_count = 0)

C8_Witness ==
    /\ Returned
    /\ last.before.state = "CLOSED"
    /\ last.before.failure_count >= 1
    /\ last.calls >= 2
    /\ cb.failure_count = 0

\* C9 as stated: a non-retriable failure while Closed takes one off
\* failure_count, floored at 0.
C9_NonRetriableDecrements ==
    (Raised /\ ~is_retriable_error(last.exc) /\ last.before.state = "CLOSED") =>
        (cb.failure_count = Max(0, last.before.failure_count - 1))

\* C9 amended: a non-retriable failure while Closed leaves failure_count as
\* it was, whether the failure is recorded or raised at once, and the
\* breaker stays Closed.
C9_NonRetriableUnchanged ==
    (Raised /\ ~is_retriable_error(last.exc) /\ last.before.state = "CLOSED") =>
        /\ cb.failure_count = last.before.failure_count
        /\ cb.state = "CLOSED"

C9_Witness ==
    /\ Raised
    /\ last.recorded = "failure_not_retriable"
    /\ last.before.state = "CLOSED"
    /\ last.before.failure_count >= 1
    /\ cb.failure_count = last.before.failure_count

\* C10: a request invokes the transport at most max_retries + 1 times; k
\* timeouts followed by a success return after k + 1 invocations; a request
\* whose attempts all time out raises RegistryTimeoutError after
\* max_retries + 1 invocations.
C10_AttemptsBounded ==
    /\ \A r \in Requests : transport_calls[r] <= max_retries + 1
    /\ last.calls <= max_retries + 1
    /\ (Returned /\ last.timeouts >= 0) =>
          (last.timeouts <= max_retries /\ last.calls = last.timeouts + 1)
    /\ (Raised /\ last.timeouts >= 1) =>
          /\ last.timeouts = max_retries + 1
          /\ last.calls = max_retries + 1
          /\ last.exc = RegistryTimeoutError(408)

C10_Witness ==
    /\ Returned
    /\ last.timeouts = max_retries
    /\ last.timeouts >= 1
    /\ last.calls = max_retries + 1

\* C11: a step in which an attempt ends in a non-retriable error ends the
\* request with that error: the caller is idle afterwards, the step invokes
\* the transport no further and enters no backoff sleep, whatever the number
\* of attempts left.
C11_NonRetriableFailsAtOnce ==
    [][(last'.exc # NoException /\ ~is_retriable_error(last'.exc))
       => (/\ last'.op = "raise"
           /\ \E r \in Requests :
                 /\ pc[r] \in {"request", "token"}
                 /\ pc'[r] = "idle"
                 /\ last'.calls = transport_calls[r]
                 /\ \A q \in Requests \ {r} :
                       pc'[q] = pc[q] /\ transport_calls'[q] = transport_calls[q])]_vars

C11_Witness ==
    /\ Raised
    /\ ~is_retriable_error(last.exc)
    /\ last.calls = 1
    /\ last.calls < max_retries + 1
    /\ \A r \in Requests : pc[r] = "idle"

\* C12: after a set completes the cache holds no more than max_size entries.
C12_SizeBounded ==
    (last.op = "set") => (Len(cache) <= max_cache_size)

\* C13: get(K) returns the stored value, as a hit, exactly while K is stored
\* and now < expires_at; otherwise it reports a miss, returns None and leaves
\* no entry for K, removing a stale one.
C13_NoEntryPastExpiry ==
    [][(last'.op = "get")
       => LET k == last'.key IN
          IF HasKey(cache, k) /\ now < Lookup(cache, k).expires_at
          THEN /\ last'.ret = Lookup(cache, k).value
               /\ last'.hits = 1 /\ last'.misses = 0
               /\ cache' = cache
          ELSE /\ last'.ret = None
               /\ last'.hits = 0 /\ last'.misses = 1
               /\ ~HasKey(cache', k)
               /\ cache' = DeleteKeys(cache, {k})
               /\ last'.evictions = IF HasKey(cache, k) THEN 1 ELSE 0]_vars

C13_Witness ==
    /\ last.op = "get"
    /\ last.ret = None
    /\ last.evicted = {last.key}
    /\ last.prev.op = "tick"
    /\ last.size_before >= 2
    /\ ~HasKey(cache, last.key)

\* C14: a get(K) that follows set(K, V, ttl) immediately returns V and is
\* counted as a hit, also when the set found the cache at capacity.
C14_SetThenGet ==
    (/\ last.op = "get"
     /\ last.prev.op = "set"
     /\ last.prev.key = last.key)
    => (/\ last.ret = last.prev.value
        /\ last.hits = 1
        /\ last.misses = 0)

C14_Witness ==
    /\ last.op = "get"
    /\ last.prev.op = "set"
    /\ last.prev.key = last.key
    /\ last.ret = "v2"
    /\ last.hits = 1
    /\ Len(cache) >= max_cache_size

\* C15: a set that finds the cache at capacity leaves no entry that had
\* already expired, and evicts no entry while it keeps one with an earlier
\* expires_at.
C15_EvictsOldestFirst ==
    [][(last'.op = "set" /\ Len(cache) >= max_cache_size)
       => LET k == last'.key
              gone == {i \in 1..Len(cache) : ~HasKey(cache', cache[i].key)}
              kept == {i \in 1..Len(cache) :
                          cache[i].key # k /\ HasKey(cache', cache[i].key)}
          IN /\ \A i \in 1..Len(cache) :
                   (now >= cache[i].expires_at /\ cache[i].key # k) => i \in gone
             /\ \A i \in gone : \A j \in kept :
                   cache[j].expires_at >= cache[i].expires_at
             /\ \A j \in kept : Lookup(cache', cache[j].key) = cache[j]]_vars

C15_Witness ==
    /\ last.op = "set"
    /\ last.size_before >= max_cache_size
    /\ now = 0
    /\ last.evicted = {"f2"}
    /\ HasKey(cache, "f1")

\* C16: a call of a cached operation that finds an unexpired entry under its
\* own key returns that entry's value at once, without any _make_request, and
\* adds one to the hit counter.
C16_SecondCallFromCache ==
    (/\ last.op \in {"operation_return", "operation_await"}
     /\ last.started
     /\ last.found # None)
    => (/\ last.op = "operation_return"
        /\ last.ret = last.found
        /\ last.upstream = 0
        /\ last.hits = 1
        /\ last.misses = 0)

\* C17: a token obtained at time T with expires_in = E gets
\* expires_at = T + E - 60, and a held token with an expiry is reported
\* expired exactly when now >= expires_at
C17_ExpiryArithmetic ==
    /\ (last.op = "reissue" /\ last.expires_in # NoExpiry)
          => token_expires_at = now + last.expires_in - 60
    /\ (last.op = "health" /\ TruthyToken(auth_token)
                           /\ token_expires_at # NoExpiry)
          => (last.token_check = "expired" <=> now >= token_expires_at)

\* C18: after an exchange whose token response declares no expires_in,
\* expires_at is unset, so that the token is never reported expired
C18_NoExpiryNeverExpires ==
    (last.op = "reissue" /\ last.expires_in = NoExpiry)
       => token_expires_at = NoExpiry

\* C19: a caller comes to wait for the token endpoint only in the step that
\* handles a 401 challenge of its registry request; an operation that finds
\* a held token expired clears token and expires_at, and the request it
\* sends carries no Bearer token (Basic with configured credentials)
C19_NoProactiveToken ==
    [][/\ \A r \in Requests :
            (pc'[r] = "token" /\ pc[r] # "token")
               => (pc[r] = "request" /\ last'.op = "challenge")
       /\ (last'.op = "start" /\ last'.token_check = "expired")
            => /\ TruthyToken(auth_token)
               /\ auth_token' = NoToken
               /\ token_expires_at' = NoExpiry
               /\ last'.ret = "admitted"
                    => last'.authorization =
                          (IF credentials THEN "Basic" ELSE "none")
               /\ \A r \in Requests : pc'[r] = "token" => pc[r] = "token"]_vars

\* C19 witness: a token obtained earlier has expired, the operation cleared
\* it and its request went out with Basic authentication
C19_Witness ==
    /\ last.op = "start"
    /\ last.token_check = "expired"
    /\ last.ret = "admitted"
    /\ last.authorization = "Basic"
    /\ auth_token = NoToken
    /\ now > TokenEpoch

\* C20 as stated: once the token exchange after a 401 challenge has yielded
\* a token, the request is re-issued
C20_AlwaysReissued ==
    [][\A r \in Requests :
          (pc[r] = "token" /\ pc'[r] # "token")
             => \/ last'.op = "reissue"
                \/ last'.exc = RegistryAuthError(NoStatus)
                \/ ~TruthyToken(auth_token')]_vars

\* C20 amended: a 401 with a Bearer challenge makes a client with
\* credentials wait for the token endpoint; when the exchange yields a
\* non-empty token and the loop has an attempt left, the request is re-issued
\* with Authorization: Bearer <new token>; otherwise the request fails with
\* an authentication error, status 401 unless the exchange itself failed
C20_ReissuedWhileAttemptsRemain ==
    [][\A r \in Requests :
          /\ (pc[r] = "request" /\ last'.op = "challenge" /\ pc'[r] # pc[r])
                => (credentials /\ pc'[r] = "token")
          /\ (pc[r] = "token" /\ pc'[r] # "token")
                => IF last'.op = "reissue"
                   THEN /\ TruthyToken(auth_token')
                        /\ attempt[r] < max_retries
                        /\ last'.authorization = "Bearer " \o auth_token'
                        /\ pc'[r] = "request"
                        /\ attempt'[r] = attempt[r] + 1
                        /\ transport_calls'[r] = transport_calls[r] + 1
                   ELSE /\ last'.op = "raise"
                        /\ pc'[r] = "idle"
                        /\ last'.exc \in {RegistryAuthError(NoStatus),
                                          RegistryAuthError(401)}
                        /\ last'.exc = RegistryAuthError(401)
                             => (attempt[r] = max_retries
                                   \/ ~TruthyToken(auth_token'))]_vars

\* C20 witness: a request was re-issued with the token just obtained
C20_Witness ==
    /\ last.op = "reissue"
    /\ last.authorization = "Bearer tok"
    /\ auth_token = "tok"
    /\ last.calls >= 2
    /\ \E r \in Requests : pc[r] = "request" /\ attempt[r] >= 1

\* C21: a 401 whose challenge cannot be completed (no Bearer challenge, no
\* realm, no credentials, a failing token endpoint) raises an
\* authentication error from the step that meets it: the request is not
\* retried, and the token and its expiry stay as they were
C21_ChallengeFailureIsFatal ==
    [][(last'.exc = RegistryAuthError(NoStatus))
          => /\ last'.op = "raise"
             /\ last'.recorded = "none"
             /\ auth_token' = auth_token
             /\ token_expires_at' = token_expires_at
             /\ \E r \in Requests :
                   /\ pc[r] \in {"request", "token"}
                   /\ pc'[r] = "idle"
                   /\ last'.calls = transport_calls[r]
                   /\ \A q \in Requests \ {r} :
                         pc'[q] = pc[q] /\ transport_calls'[q] = transport_calls[q]]_vars

\* C21 witness: the first attempt of a request ended in the authentication
\* error while attempts were left and a token obtained earlier is still held
C21_Witness ==
    /\ last.op = "raise"
    /\ last.exc = RegistryAuthError(NoStatus)
    /\ last.calls = 1
    /\ max_retries >= 1
    /\ auth_token = "tok"
    /\ \A r \in Requests : pc[r] = "idle"

\* C22: a 429 or 503 response with a Retry-After of N seconds gives an error
\* whose details.retry_after is that value, and the delay computed for such
\* an error is N seconds exactly, whatever the attempt index and the jitter
C22_RetryAfterHonoured ==
    /\ (last.op = "handle_error_response"
          /\ last.response.status \in {429, 503}
          /\ last.response.retry_after \in {"10", "120"})
         => /\ last.error.retry_after = last.response.retry_after
            /\ last.error.kind = (IF last.response.status = 429
                                  THEN "RegistryRateLimitError"
                                  ELSE "RegistryUnavailableError")
    /\ (last.op = "get_retry_delay"
          /\ last.error.kind \in {"RegistryRateLimitError",
                                  "RegistryUnavailableError"})
         => /\ last.error.retry_after = "0" => last.delay = 0
            /\ last.error.retry_after = "10" => last.delay = 10 * 1000
            /\ last.error.retry_after = "120" => last.delay = 120 * 1000

\* C22 witness: a 503 with Retry-After 120 at a late attempt index: the
\* delay is 120 s although the formula would give at most 60 s and jitter
C22_Witness ==
    /\ last.op = "get_retry_delay"
    /\ last.error.kind = "RegistryUnavailableError"
    /\ last.error.retry_after = "120"
    /\ last.attempt >= 3
    /\ last.random > 0
    /\ last.delay = 120000
    /\ max_retry_delay < 120000

C24_RetriableByKindOrStatus ==
    (last.op = "is_retriable_error")
       => /\ last.retriable
               <=> \/ last.error.kind \in {"RegistryConnectionError",
                                           "RegistryTimeoutError",
                                           "RegistryServerError",
                                           "RegistryUnavailableError",
                                           "RegistryRateLimitError"}
                   \/ last.error.status \in {408, 429, 500, 502, 503, 504}
          /\ last.error.kind \in {"RegistryAuthError", "RegistryNotFoundError",
                                  "RegistryPermissionError",
                                  "RegistryValidationError"}
               => ~last.retriable
          /\ (last.error.kind = "RegistryException"
                /\ last.error.status \notin {408, 429, 500, 502, 503, 504})
               => ~last.retriable

\* C24 witness: a generic registry error is retriable by its status code
C24_Witness ==
    /\ last.op = "is_retriable_error"
    /\ last.error.kind = "RegistryException"
    /\ last.error.status = 408
    /\ last.retriable

\* C25: a response with status >= 400 becomes the typed error of its status
\* code, carrying that status code, and the code and message of the error
\* envelope when RegistryErrorResponse accepts the body
C25_StatusToTypedError ==
    (last.op = "handle_error_response")
       => /\ last.response.status >= 400
          /\ last.error.status = last.response.status
          /\ last.error.kind =
               (CASE last.response.status = 400 -> "RegistryValidationError"
                  [] last.response.status = 401 -> "RegistryAuthError"
                  [] last.response.status = 403 -> "RegistryPermissionError"
                  [] last.response.status = 404 -> "RegistryNotFoundError"
                  [] last.response.status = 429 -> "RegistryRateLimitError"
                  [] last.response.status \in {500, 502} -> "RegistryServerError"
                  [] last.response.status = 503 -> "RegistryUnavailableError"
                  [] last.response.status = 504 -> "RegistryTimeoutError"
                  [] OTHER -> last.error.kind)
          /\ last.response.envelope = "one"
               => /\ last.error.error_code = "NAME_UNKNOWN"
                  /\ last.response.retry_after = NoRetryAfter
                       => last.error.message
                            = "repository name not known to registry"
          /\ last.response.envelope = "two"
               => /\ last.error.error_code = "MANIFEST_UNKNOWN"
                  /\ last.response.retry_after = NoRetryAfter
                       => last.error.message
                            = "MANIFEST_UNKNOWN: manifest unknown; DENIED: access denied"
          /\ last.response.envelope \in {"not_json", "empty", "unknown_code"}
               => last.error.error_code = NoCode

\* C25 witness: a 504 whose body holds one registry error
C25_Witness ==
    /\ last.op = "handle_error_response"
    /\ last.response.status = 504
    /\ last.response.envelope = "one"
    /\ last.error = Detailed(RegistryTimeoutError(504), "NAME_UNKNOWN",
                             "repository name not known to registry",
                             NoRetryAfter)

\* C26: a call of list_repositories that is not answered from the cache
\* issues one _make_request per page it consumes: one page without
\* fetch_all, and with fetch_all every page up to the first without a
\* rel="next" link; it returns the names of the pages in page order, and
\* has_next tells whether the last page consumed carried a next link
C26_OneRequestPerPage ==
    /\ (last.op = "catalog_return" /\ ~last.hit)
         => /\ Len(last.pages) >= 1
            /\ last.upstream = Len(last.pages)
            /\ ~last.fetch_all => Len(last.pages) = 1
            /\ last.fetch_all
                 => /\ \A i \in 1..(Len(last.pages) - 1) :
                          last.pages[i].link = NextLink
                    /\ last.pages[Len(last.pages)].link # NextLink
            /\ last.result.names = all_repositories(last.pages)
            /\ last.result.has_next
                 <=> last.pages[Len(last.pages)].link = NextLink
    /\ (last.op = "catalog_await")
         => /\ last.upstream = Len(last.pages) + 1
            /\ Len(last.pages) >= 1 => last.fetch_all

\* C26 witness: with fetch_all the second page had no next link: two
\* requests, four names in page order, has_next false
C26_Witness ==
    /\ last.op = "catalog_return"
    /\ ~last.hit
    /\ last.fetch_all
    /\ last.upstream = 2
    /\ last.result.names = <<"repo1", "repo2", "repo3", "repo4">>
    /\ ~last.result.has_next

\* C27: when the request of get_repository_info, list_tags, get_manifest or
\* get_config_blob ends in a not-found error the operation raises a
\* not-found error with status 404 whose message names the resource; any
\* other registry error leaves the operation as it came; an exception that
\* is no registry error is wrapped into a generic registry error whose
\* message ends with the original message
C27_NotFoundScopedOthersUnchanged ==
    (last.op = "operation_raise")
       => /\ (last.cause.kind = "RegistryNotFoundError"
                /\ last.failed \in {"get_repository_info", "list_tags",
                                    "get_manifest", "get_config_blob"})
               => /\ last.exc = RegistryNotFoundError(404)
                  /\ last.message =
                       (CASE last.failed = "get_manifest" ->
                               "Tag 't' not found in repository 'r'"
                          [] last.failed = "get_config_blob" ->
                               "Config blob 'd' not found in repository 'r'"
                          [] OTHER -> "Repository 'r' not found")
          /\ (IsRegistryException(last.cause)
                /\ last.cause.kind # "RegistryNotFoundError")
               => (last.exc = last.cause /\ last.message = OriginalMessage)
          /\ ~IsRegistryException(last.cause)
               => /\ last.exc = RegistryException(NoStatus)
                  /\ \E prefix \in {FailurePrefix(o) : o \in CachedOperations} :
                        last.message = prefix \o OriginalMessage

\* C27 witness: inside get_detailed_image_info the manifest request ended in
\* a not-found error
C27_Witness ==
    /\ last.op = "operation_raise"
    /\ last.operation = "get_detailed_image_info"
    /\ last.failed = "get_manifest"
    /\ last.cause = RegistryNotFoundError(404)
    /\ last.exc = RegistryNotFoundError(404)
    /\ last.message = "Tag 't' not found in repository 'r'"

\* C28: a manifest that lacks schemaVersion, mediaType, config or layers, or
\* mediaType, size or digest in config or in a layer, makes get_manifest
\* raise a validation error instead of returning it, and no such manifest
\* is ever held by the cache
C28_IncompleteManifestRejected ==
    /\ (last.op \in {"manifest_raise", "manifest_return"}
          /\ \/ \E f \in {"schemaVersion", "mediaType", "config", "layers"} :
                   f \notin last.manifest_data.top
             \/ \E f \in {"mediaType", "size", "digest"} :
                   f \notin last.manifest_data.config
             \/ \E i \in 1..Len(last.manifest_data.layers) :
                   \E f \in {"mediaType", "size", "digest"} :
                      f \notin last.manifest_data.layers[i])
         => /\ last.op = "manifest_raise"
            /\ last.exc.kind = "RegistryValidationError"
            /\ Len(cache) = last.size_before
    /\ \A n \in 1..Len(cache) :
          /\ {"schemaVersion", "mediaType", "config", "layers"}
               \subseteq cache[n].value.top
          /\ {"mediaType", "size", "digest"} \subseteq cache[n].value.config
          /\ \A i \in 1..Len(cache[n].value.layers) :
                {"mediaType", "size", "digest"} \subseteq cache[n].value.layers[i]

\* C28 witness: a manifest without layers is rejected while the cache holds
\* the complete manifest another caller received
C28_Witness ==
    /\ last.op = "manifest_raise"
    /\ "layers" \notin last.manifest_data.top
    /\ last.exc = RegistryValidationError(422)
    /\ Len(cache) = 1
    /\ last.size_before = 1
    /\ cache[1].value = CompleteManifest

\* C29: reset_circuit_breaker leaves the breaker Closed with failure_count 0
\* and half_open_calls 0 whatever its state was, and a request that starts
\* right after it is admitted
C29_ResetClosesAndAdmits ==
    /\ [](last.op = "reset"
            => /\ cb.state = "CLOSED"
               /\ cb.failure_count = 0
               /\ cb.half_open_calls = 0)
    /\ [][(last.op = "reset" /\ last'.op = "start")
            => /\ last'.ret = "admitted"
               /\ last'.exc = NoException
               /\ last'.calls = 1]_vars

\* C29 witness: the breaker is reset while Open within the cool-down, with
\* a caller ready to start
C29_Witness ==
    /\ last.op = "reset"
    /\ last.before.state = "OPEN"
    /\ now - last.before.last_failure_time <= circuit_breaker_timeout
    /\ cb.state = "CLOSED"
    /\ \E r \in Requests : pc[r] = "idle"

\* C30: right after close the cache holds no entry, no token and no token
\* expiry are held, and the breaker is Closed with failure_count 0 and
\* half_open_calls 0
C30_CloseRestoresInitialValues ==
    (last.op = "close")
        => /\ Len(cache) = 0
           /\ auth_token = NoToken
           /\ token_expires_at = NoExpiry
           /\ cb.state = "CLOSED"
           /\ cb.failure_count = 0
           /\ cb.half_open_calls = 0

\* C30 witness: close on a client that held entries, a token with an expiry
\* and a breaker that was not Closed
C30_Witness ==
    /\ last.op = "close"
    /\ last.size_before > 0
    /\ last.token_before # NoToken
    /\ last.expiry_before # NoExpiry
    /\ last.before.state # "CLOSED"
    /\ cache = <<>>
    /\ auth_token = NoToken

\* C31: a call of batch_get_metadata never has more than concurrent_limit
\* (5) metadata fetches in flight, however many repositories it fetches:
\* the fetches in flight and the free permits of its semaphore add up to
\* the limit
C31_FetchesInFlightBounded ==
    \A r \in Requests :
        batch[r].pc = "gather"
            => /\ batch[r].fetching <= 5
               /\ batch[r].fetching >= 0
               /\ batch[r].semaphore >= 0
               /\ batch[r].fetching + batch[r].semaphore = 5

\* C31 witness: six repositories are being fetched, five fetches are in
\* flight and the sixth waits for a permit
C31_Witness ==
    \E r \in Requests :
        /\ batch[r].pc = "gather"
        /\ batch[r].fetching = 5
        /\ batch[r].pending >= 1
        /\ batch[r].fetching + batch[r].pending + batch[r].fetched
             + batch[r].failed > 5

\* C32: calls for the same key that overlap are not coalesced: a call that
\* finds no entry under its key counts a miss and issues a request of its
\* own even while another call for the key is in flight, and a call that
\* completes writes its own result under the key, whatever another call
\* wrote there before, so the entry is that of the call completed last
C32_LastCompletionWins ==
    /\ []((/\ operation \notin CompositeOperations
           /\ last.op = "operation_await"
           /\ last.started
           /\ last.found = None)
          => (last.hits = 0 /\ last.misses = 1 /\ last.upstream = 1))
    /\ [](operation \notin CompositeOperations
          => \A r \in Requests : call[r] # NoCall => call[r].upstream = 1)
    /\ [][\A r \in Requests :
            (/\ operation \notin CompositeOperations
             /\ call[r] # NoCall
             /\ call'[r] = NoCall
             /\ last'.op = "operation_return")
            => /\ HasKey(cache', CacheKey(operation))
               /\ Lookup(cache', CacheKey(operation)).value = last'.ret
               /\ Lookup(cache', CacheKey(operation)).expires_at
                    = now + OperationTTL(operation)]_vars

\* C32 witness: a call of list_tags completes after an overlapping one has
\* written the entry, and replaces the value it finds with its own
C32_Witness ==
    /\ operation = "list_tags"
    /\ last.op = "operation_return"
    /\ ~last.started
    /\ last.found # None
    /\ last.found # last.ret
    /\ last.upstream = 1
    /\ last.misses = 1
    /\ Len(cache) = 1
    /\ cache[1].key = "tags:r"
    /\ cache[1].value = last.ret

\* C33: hits + misses equals the number of _get_cached calls made so far,
\* and every such call adds one to exactly one of the two counters, however
\* the callers' lookups and stores interleave
C33_EveryLookupCounted ==
    /\ [](cache_stats.hits + cache_stats.misses = lookups)
    /\ [][(last'.op = "lookup")
            => \/ /\ cache_stats'.hits = cache_stats.hits + 1
                  /\ cache_stats'.misses = cache_stats.misses
                  /\ last'.ret # None
               \/ /\ cache_stats'.hits = cache_stats.hits
                  /\ cache_stats'.misses = cache_stats.misses + 1
                  /\ last'.ret = None]_vars

\* C33 witness: a lookup finds an expired entry while the other caller is
\* between its lookup and its store, after a hit and a miss were counted
C33_Witness ==
    /\ last.op = "lookup"
    /\ last.present
    /\ last.ret = None
    /\ cache_stats.hits >= 1
    /\ cache_stats.misses >= 2
    /\ \E r \in Requests : call[r] # NoCall /\ r # last.caller

\* C34: a call whose key has an unexpired entry returns the cached value
\* without a breaker check and without a transport call, whatever the state
\* of the breaker
C34_CachedReturnSkipsBreaker ==
    [][(/\ last'.op \in {"cached_return", "start"}
        /\ HasKey(cache, CacheKey(operation))
        /\ now < Lookup(cache, CacheKey(operation)).expires_at)
       => (/\ last'.op = "cached_return"
           /\ last'.ret = Lookup(cache, CacheKey(operation)).value
           /\ cb' = cb
           /\ pc' = pc
           /\ transport_calls' = transport_calls)]_vars

\* C35: the breaker state changes only from Closed to Open, from Open to
\* HalfOpen, from HalfOpen to Closed and from HalfOpen to Open, or to Closed
\* by reset_circuit_breaker and close; never from Open straight to Closed
\* or from Closed straight to HalfOpen otherwise
C35_OnlyAllowedTransitions ==
    [][(cb'.state # cb.state)
         => \/ <<cb.state, cb'.state>>
                 \in {<<"CLOSED", "OPEN">>, <<"OPEN", "HALF_OPEN">>,
                      <<"HALF_OPEN", "CLOSED">>, <<"HALF_OPEN", "OPEN">>}
            \/ /\ last'.op \in {"reset", "close"}
               /\ cb'.state = "CLOSED"]_vars

\* C35 witness: a response arrives while the breaker is Open, for a request
\* admitted before it opened, and the breaker stays Open
C35_Witness ==
    /\ last.op = "return"
    /\ last.recorded = "success"
    /\ last.before.state = "OPEN"
    /\ cb.state = "OPEN"

\* C36: failure_count is never negative; while Open or HalfOpen it is at
\* least the threshold; half_open_calls is 0 while Closed or Open and stays
\* below half_open_max_calls while HalfOpen
C36_BreakerFieldsConsistent ==
    /\ cb.failure_count >= 0
    /\ cb.state \in {"OPEN", "HALF_OPEN"}
         => cb.failure_count >= circuit_breaker_threshold
    /\ cb.state \in {"CLOSED", "OPEN"} => cb.half_open_calls = 0
    /\ cb.state = "HALF_OPEN"
         => /\ cb.half_open_calls >= 0
            /\ cb.half_open_calls < circuit_breaker_half_open_max_calls

\* C36 witness: a HalfOpen breaker has counted a success and is one
\* success short of closing
C36_Witness ==
    /\ cb.state = "HALF_OPEN"
    /\ cb.half_open_calls = circuit_breaker_half_open_max_calls - 1
    /\ cb.half_open_calls >= 1
    /\ cb.failure_count >= circuit_breaker_threshold
    /\ last.recorded = "success"

\* C37: a request rejected because the breaker is Open, and was Open before
\* the request, leaves state, failure_count, last_failure_time and
\* half_open_calls as they were and records neither success nor failure
C37_RejectionLeavesBreaker ==
    [][(/\ last'.op = "start"
        /\ last'.ret = "Circuit breaker is open"
        /\ cb.state = "OPEN")
       => (/\ cb'.state = cb.state
           /\ cb'.failure_count = cb.failure_count
           /\ cb'.last_failure_time = cb.last_failure_time
           /\ cb'.half_open_calls = cb.half_open_calls
           /\ last'.recorded = "none")]_vars

\* C37 witness: a request is rejected at the last instant of the cool-down
\* of a breaker that opened earlier
C37_Witness ==
    /\ last.op = "start"
    /\ last.ret = "Circuit breaker is open"
    /\ last.before.state = "OPEN"
    /\ cb = last.before
    /\ now - cb.last_failure_time = circuit_breaker_timeout

\* every entry of the cache holds a result that was fetched and accepted
CacheHoldsParsedOnly ==
    \A i \in 1..Len(cache) :
       /\ cache[i].value # None
       /\ \A op \in CachedOperations \ CompositeOperations :
             cache[i].key = CacheKey(op)
                => \E body \in ResponseBodies :
                      /\ ParseResponse(op, body).ok
                      /\ cache[i].value = ParseResponse(op, body).value

\* the step ends a call with an exception and no entry is created or
\* overwritten under the key of the operation called
FailureKeepsOwnKey ==
    (last'.op = "operation_raise")
       => (HasKey(cache', CacheKey(operation))
             => /\ HasKey(cache, CacheKey(operation))
                /\ Lookup(cache', CacheKey(operation))
                     = Lookup(cache, CacheKey(operation)))

\* the step is a call of the operation
CallStep ==
    /\ last'.op \in {"operation_await", "operation_return", "operation_raise"}
    /\ last'.started

\* the step is a call of the operation that issued one request
FreshRequest ==
    /\ last'.op = "operation_await"
    /\ last'.upstream = 1

\* C38 as stated: a call that raises neither creates nor overwrites the
\* entry under its own key, the cache holds accepted results only, and the
\* call that follows a failed one issues a request whenever no other call
\* has left a usable entry under the key
C38_FailedCallThenFreshRequest ==
    /\ []CacheHoldsParsedOnly
    /\ [][FailureKeepsOwnKey]_vars
    /\ [][(/\ last.op = "operation_raise"
           /\ ~Truthy(get_cached_value(cache, CacheKey(operation), now))
           /\ CallStep)
          => FreshRequest]_vars

\* C38: a call that raises neither creates nor overwrites the entry under
\* its own key and the cache holds accepted results only; the call that
\* follows a failed one issues a request whenever no usable entry is under
\* the key, except that get_detailed_image_info issues none while usable
\* entries of the manifest and of the config blob are both cached
C38_FailedCallWritesNothing ==
    /\ []CacheHoldsParsedOnly
    /\ [][FailureKeepsOwnKey]_vars
    /\ [][(/\ last.op = "operation_raise"
           /\ ~Truthy(get_cached_value(cache, CacheKey(operation), now))
           /\ ~(/\ operation = "get_detailed_image_info"
                /\ Truthy(get_cached_value(cache, CacheKey("get_manifest"), now))
                /\ Truthy(get_cached_value(cache, CacheKey("get_config_blob"),
                                           now)))
           /\ CallStep)
          => FreshRequest]_vars

\* C38 witness: get_manifest raises for a response it does not accept while
\* the entry another call stored under its key stays as it was
C38_Witness ==
    /\ operation = "get_manifest"
    /\ last.op = "operation_raise"
    /\ last.failed = "get_manifest"
    /\ last.body = "{}"
    /\ last.exc = RegistryValidationError(422)
    /\ Len(cache) = 1
    /\ cache[1].key = "manifest:r:t:m"
    /\ cache[1].value = "manifest(v1)"

\* C39: an Open breaker does not stay Open: while time passes, requests
\* keep being made and the admitted ones succeed, it becomes HalfOpen, and
\* a HalfOpen breaker becomes Closed
C39_OpenEventuallyCloses ==
    /\ (cb.state = "OPEN") ~> (cb.state = "HALF_OPEN")
    /\ (cb.state = "HALF_OPEN") ~> (cb.state = "CLOSED")

\* C39 witness: the success that closes the breaker which a query had
\* turned HalfOpen once the cool-down of the Open breaker was over
C39_Witness ==
    /\ last.op = "return"
    /\ last.recorded = "success"
    /\ last.before.state = "HALF_OPEN"
    /\ last.before.half_open_calls = circuit_breaker_half_open_max_calls - 1
    /\ cb.state = "CLOSED"
    /\ cb.failure_count = 0
    /\ now - cb.last_failure_time > circuit_breaker_timeout

\* C40: list_repositories(fetch_all=True) whose requests all succeed ends
\* when the registry serves a finite chain of pages: every request after
\* the first asks for the page the next link of the response before it
\* names, the call returns after as many requests as the chain has pages,
\* having consumed just these, and every call returns
C40_FetchAllTerminates ==
    /\ []((last.op = "chain_await" /\ ~last.started)
            => last.target = last.named)
    /\ []((last.op = "chain_return" /\ ~last.hit)
            => LET chain == RegistryChain(last.registry.size,
                                          last.registry.style,
                                          [n |-> last.limit, last |-> NoParam])
               IN /\ last.upstream = Len(chain)
                  /\ last.pages = chain
                  /\ last.result.names
                       = [i \in 1..last.registry.size |-> RepositoryName(i)])
    /\ \A r \in Requests : (call[r] # NoCall) ~> (call[r] = NoCall)

\* C40 witness: three repositories listed one at a time, the next link
\* behind a link to the previous page, returned after three requests
C40_Witness ==
    /\ last.op = "chain_return"
    /\ ~last.hit
    /\ last.limit = "1"
    /\ last.registry = [size |-> 3, style |-> "prev_next"]
    /\ last.upstream = 3
    /\ Len(last.pages) = 3
    /\ Len(last.pages[1].link) = 2
    /\ last.pages[3].link = <<>>
    /\ last.result.names = <<"repo1", "repo2", "repo3">>

====
